---- MODULE Spec2Model ----
(***************************************************************************)
(* Slot allocator and occupancy ledger of the pharmacy pill-storage        *)
(* application (latest generation, src/10thgenUI.py).  The relational      *)
(* store is modelled as sets of records, one per table row; every handler  *)
(* is one action that performs all of its SQL statements.                  *)
(*                                                                         *)
(* Conventions: Python None / SQL NULL of a tuple-valued result is the     *)
(* empty tuple <<>>; a NULL slot_id is 0 (slot ids start at 1 and the code *)
(* tests them with "if not sid"); text is a sequence of one-character      *)
(* strings so that parsing is computed, not assumed.                       *)
(***************************************************************************)
EXTENDS Integers, Sequences, FiniteSets, TLC

VARIABLES shelves,        \* table shelves: set of [name, rows_count, cols_count]
          slots,          \* table slots: set of [id, shelf, row, col, occupied]
          nextSlotId,     \* AUTOINCREMENT counter of slots
          sections,       \* table letter_sections: letter -> [shelf, lower_bound, upper_bound]
          patients,       \* table patients: set of [id, name, address]
          nextPatientId,  \* AUTOINCREMENT counter of patients
          prescriptions,  \* table prescriptions: set of [id, patient_id, basket_size, slot_id]
          nextPrescId,    \* AUTOINCREMENT counter of prescriptions
          ui,             \* the modal popup that holds the input grab, with what it captured
          last,           \* the handler that ran last: [op, a, ok]
          blink_groups,   \* _blink_groups: key -> the session registered under it, 0 for none
          blink_sessions, \* the sessions start_blink created: events and worker thread
          blink_call,     \* the key of the start_blink call the main thread is inside, 0 for none
          scanner         \* the position of the allocator scan in progress

vars == <<shelves, slots, nextSlotId, sections, patients, nextPatientId,
          prescriptions, nextPrescId, ui, last,
          blink_groups, blink_sessions, blink_call, scanner>>

\* ------------------------------------------------------------------ bounds
\* rows and columns a shelf may be given in the shelf-settings window
MaxRows == 2
MaxCols == 2
\* the slot ids the shelf-settings window may hand out
MaxSlotId == 3
\* prescriptions and patients ever created in the ledger
MaxPresc == 2
MaxPatients == 1
\* extent of the shelf whose snapshots the section search is run on
ScanRows == 2
ScanCols == 2

\* keys (first slot ids) of blink sessions, and sessions ever started
MaxBlinkKeys == 2
MaxSessions == 3

\* no blink session registered, no start_blink call and no scan in progress
Quiet ==
    /\ blink_groups = [k \in 1..MaxBlinkKeys |-> 0]
    /\ blink_sessions = <<>>
    /\ blink_call = 0
    /\ scanner = [pc |-> "idle"]

\* ----------------------------------------------------------- text helpers
None == <<>>

Alphabet == << "A","B","C","D","E","F","G","H","I","J","K","L","M",
               "N","O","P","Q","R","S","T","U","V","W","X","Y","Z" >>

LowerAlphabet == << "a","b","c","d","e","f","g","h","i","j","k","l","m",
                    "n","o","p","q","r","s","t","u","v","w","x","y","z" >>

Digits == << "0","1","2","3","4","5","6","7","8","9" >>

IndexIn(seq, x) == IF \E i \in DOMAIN seq : seq[i] = x
                   THEN CHOOSE i \in DOMAIN seq : seq[i] = x
                   ELSE 0

\* ord(ch) - ord('A') + 1 for an upper-case letter, 0 otherwise
ord(ch) == IndexIn(Alphabet, ch)

chr(i) == Alphabet[i]

isalpha(ch) == IndexIn(Alphabet, ch) > 0 \/ IndexIn(LowerAlphabet, ch) > 0

isdigit(ch) == IndexIn(Digits, ch) > 0

isspace(ch) == ch = " "

upper_char(ch) == IF IndexIn(LowerAlphabet, ch) > 0
                  THEN Alphabet[IndexIn(LowerAlphabet, ch)]
                  ELSE ch

upper(s) == [i \in DOMAIN s |-> upper_char(s[i])]

RECURSIVE lstrip(_)
lstrip(s) == IF s # <<>> /\ isspace(Head(s)) THEN lstrip(Tail(s)) ELSE s

RECURSIVE rstrip(_)
rstrip(s) == IF s # <<>> /\ isspace(s[Len(s)])
             THEN rstrip(SubSeq(s, 1, Len(s) - 1))
             ELSE s

strip(s) == rstrip(lstrip(s))

RECURSIVE digits_value(_)
digits_value(s) == IF s = <<>> THEN 0
                   ELSE 10 * digits_value(SubSeq(s, 1, Len(s) - 1))
                        + (IndexIn(Digits, s[Len(s)]) - 1)

\* Python int(text): surrounding blanks and one sign allowed, then digits.
\* The result is <<value>>, or None where int() raises ValueError.
int(text) ==
    LET t == strip(text)
        signed == t # <<>> /\ Head(t) \in {"+", "-"}
        body == IF signed THEN Tail(t) ELSE t
    IN IF body = <<>> \/ \E i \in DOMAIN body : ~isdigit(body[i])
       THEN None
       ELSE << IF signed /\ Head(t) = "-" THEN 0 - digits_value(body)
               ELSE digits_value(body) >>

rows_range(start_row, end_row) ==
    [i \in 1..(ord(end_row) - ord(start_row) + 1) |-> chr(ord(start_row) + i - 1)]

parse_bound(bound_text) ==
    IF bound_text = <<>> THEN None
    ELSE LET s == upper(strip(bound_text))
         IN IF Len(s) < 2 THEN None
            ELSE IF ~isalpha(s[1]) THEN None
            ELSE LET col == int(Tail(s))
                 IN IF col = None THEN None
                    ELSE IF ord(s[1]) = 0 THEN None
                    ELSE IF col[1] <= 0 THEN None
                    ELSE <<s[1], col[1]>>

SetMin(S) == CHOOSE x \in S : \A y \in S : x <= y
SetMax(S) == CHOOSE x \in S : \A y \in S : y <= x

\* ------------------------------------------------------------- slots table
\* slots: set of rows [id, shelf, row, col, occupied]

slot_id_to_tuple(S, slot_id) ==
    LET m == {s \in S : s.id = slot_id}
    IN IF m = {} THEN None
       ELSE LET s == CHOOSE x \in m : TRUE IN <<s.shelf, s.row, s.col>>

\* SELECT id, occupied FROM slots WHERE shelf=? AND row=? AND col=?  (first row)
get_slot_by_position(S, shelf, row, col) ==
    LET m == {s \in S : s.shelf = shelf /\ s.row = row /\ s.col = col}
    IN IF m = {} THEN None
       ELSE LET s == CHOOSE x \in m : \A y \in m : x.id <= y.id
            IN <<s.id, s.occupied>>

next_col_partner_slot_id(S, primary_slot_id) ==
    LET tpl == slot_id_to_tuple(S, primary_slot_id)
    IN IF tpl = None THEN 0
       ELSE LET r == get_slot_by_position(S, tpl[1], tpl[2], tpl[3] + 1)
            IN IF r = None THEN 0 ELSE r[1]

\* UPDATE slots SET occupied=1 WHERE id=?  for each id of the list
mark_slots_occupied(S, slot_ids) ==
    {IF s.id \in slot_ids THEN [s EXCEPT !.occupied = 1] ELSE s : s \in S}

\* UPDATE slots SET occupied=0 WHERE id=?  for each id of the list
mark_slots_free(S, slot_ids) ==
    {IF s.id \in slot_ids THEN [s EXCEPT !.occupied = 0] ELSE s : s \in S}

populate_slots_always(S, next, shelf_name, rows_count, cols_count) ==
    {[id |-> next + i * cols_count + (col - 1), shelf |-> shelf_name,
      row |-> chr(i + 1), col |-> col, occupied |-> 0] :
         i \in 0..(rows_count - 1), col \in 1..cols_count}

\* The rows populate_slots_for_shelf inserts: none when the shelf already has
\* a slot, otherwise rows 'A'+i (0 <= i < rows_count) x columns 1..cols_count,
\* free, with AUTOINCREMENT ids handed out in insertion order.
populate_slots_for_shelf(S, next, shelf_name, rows_count, cols_count) ==
    IF Cardinality({s \in S : s.shelf = shelf_name}) > 0
    THEN {}
    ELSE {[id |-> next + i * cols_count + (col - 1), shelf |-> shelf_name,
           row |-> chr(i + 1), col |-> col, occupied |-> 0] :
              i \in 0..(rows_count - 1), col \in 1..cols_count}

\* -------------------------------------------------------- prescriptions
\* prescriptions: set of rows [id, patient_id, basket_size, slot_id]
\* (medication, quantity and date play no part in allocation)

\* (basket or "small").lower(); a NULL basket is the empty string
basket_of(basket) == IF basket = "" THEN "small" ELSE basket

expand_slots_for_large_display_or_freeing(S, P, presc_id) ==
    LET m == {p \in P : p.id = presc_id}
    IN IF m = {} THEN {}
       ELSE LET rec == CHOOSE p \in m : TRUE
                partner == next_col_partner_slot_id(S, rec.slot_id)
            IN IF rec.slot_id = 0 THEN {}
               ELSE IF basket_of(rec.basket_size) # "large" THEN {rec.slot_id}
               ELSE IF partner # 0 THEN {rec.slot_id, partner}
               ELSE {rec.slot_id}

repair_seen_primary_only(S, P) == {p.slot_id : p \in {q \in P : q.slot_id # 0}}

\* The ids collected in `seen` by repair_slot_occupancy
repair_seen(S, P) ==
    {p.slot_id : p \in {q \in P : q.slot_id # 0}}
    \cup {next_col_partner_slot_id(S, p.slot_id) :
            p \in {q \in P : q.slot_id # 0 /\ basket_of(q.basket_size) = "large"
                             /\ next_col_partner_slot_id(S, q.slot_id) # 0}}

repair_toggle(S, P) ==
    {IF s.id \in repair_seen(S, P) THEN [s EXCEPT !.occupied = 1 - s.occupied] ELSE s :
        s \in S}

\* UPDATE slots SET occupied=0; then occupied=1 for every collected id
repair_slot_occupancy(S, P) ==
    mark_slots_occupied({[s EXCEPT !.occupied = 0] : s \in S}, repair_seen(S, P))

\* ------------------------------------------------------- letter sections
\* sections: letter -> [shelf, lower_bound, upper_bound]; one row per letter
Letters == {Alphabet[i] : i \in DOMAIN Alphabet} \cup {"Overflow"}

get_letter_section_open_ended(sec, letter) ==
    IF letter \notin DOMAIN sec THEN None
    ELSE IF sec[letter].shelf = <<>> \/ parse_bound(sec[letter].lower_bound) = None
    THEN None
    ELSE IF parse_bound(sec[letter].upper_bound) = None
    THEN <<sec[letter].shelf, parse_bound(sec[letter].lower_bound)[1],
           parse_bound(sec[letter].lower_bound)[2], "Z", MaxCols + 1>>
    ELSE <<sec[letter].shelf, parse_bound(sec[letter].lower_bound)[1],
           parse_bound(sec[letter].lower_bound)[2],
           parse_bound(sec[letter].upper_bound)[1],
           parse_bound(sec[letter].upper_bound)[2]>>

get_letter_section(sec, letter) ==
    IF letter \notin DOMAIN sec THEN None
    ELSE LET r == sec[letter]
             lo == parse_bound(r.lower_bound)
             up == parse_bound(r.upper_bound)
         IN IF r.shelf = <<>> \/ r.lower_bound = <<>> \/ r.upper_bound = <<>>
            THEN None
            ELSE IF lo = None \/ up = None THEN None
            ELSE <<r.shelf, lo[1], lo[2], up[1], up[2]>>

get_overflow_section(sec) == get_letter_section(sec, "Overflow")

\* ---------------------------------------------------------- section search
SafeCap == 10000

\* SELECT MAX(col) FROM slots WHERE shelf=? AND row=?   (0 for NULL)
max_col_row(S, shelf_name, r) ==
    LET cs == {s.col : s \in {x \in S : x.shelf = shelf_name /\ x.row = r}}
    IN IF cs = {} THEN 0 ELSE SetMax(cs)

Min2(a, b) == IF a <= b THEN a ELSE b

\* c_start = start_col if r == start_row else 1
col_start_every_row(r, start_row, start_col) == start_col

col_start(r, start_row, start_col) == IF r = start_row THEN start_col ELSE 1

\* if row2 and row2[1] == 0
pair_any_neighbour(row2) == row2 # None

pair_free(row2) == row2 # None /\ row2[2] = 0

\* the inner loop: for c in range(c, c_end + 1)
RECURSIVE scan_cols(_, _, _, _, _, _)
scan_cols(S, shelf_name, r, c, c_end, basket_size) ==
    IF c > c_end THEN None
    ELSE LET row1 == get_slot_by_position(S, shelf_name, r, c)
             row2 == get_slot_by_position(S, shelf_name, r, c + 1)
         IN IF row1 = None
            THEN scan_cols(S, shelf_name, r, c + 1, c_end, basket_size)
            ELSE IF row1[2] # 0
            THEN scan_cols(S, shelf_name, r, c + 1, c_end, basket_size)
            ELSE IF basket_size = "large"
            THEN IF pair_free(row2)
                 THEN << <<row1[1], row2[1]>>, shelf_name >>
                 ELSE scan_cols(S, shelf_name, r, c + 1, c_end, basket_size)
            ELSE << <<row1[1]>>, shelf_name >>

\* the outer loop: for r in rows, from position i of rows
RECURSIVE scan_rows(_, _, _, _, _, _, _, _, _)
scan_rows(S, shelf_name, rows, i, start_row, start_col, end_row, end_col, basket_size) ==
    IF i > Len(rows) THEN None
    ELSE LET r == rows[i]
             c_start == col_start(r, start_row, start_col)
             c_end0 == IF r = end_row THEN end_col ELSE SafeCap
             mc == max_col_row(S, shelf_name, r)
             found == scan_cols(S, shelf_name, r, c_start, Min2(c_end0, mc), basket_size)
         IN IF mc = 0
            THEN scan_rows(S, shelf_name, rows, i + 1, start_row, start_col,
                           end_row, end_col, basket_size)
            ELSE IF found # None THEN found
            ELSE scan_rows(S, shelf_name, rows, i + 1, start_row, start_col,
                           end_row, end_col, basket_size)

find_slot_in_section(S, shelf_name, start_row, start_col, end_row, end_col, basket_size) ==
    scan_rows(S, shelf_name, rows_range(start_row, end_row), 1,
              start_row, start_col, end_row, end_col, basket_size)

\* the search of a resolved section: nothing for an unconfigured one
find_in_bound(S, s, basket_size) ==
    IF s = None THEN None
       ELSE find_slot_in_section(S, s[1], s[2], s[3], s[4], s[5], basket_size)

find_next_available_slot_primary(S, sec, letter, basket_size) ==
    find_in_bound(S, get_letter_section(sec, letter), basket_size)

find_primary_only(S, sec, letter, basket_size) ==
    find_next_available_slot_primary(S, sec, letter, basket_size)

find_next_available_slot_with_overflow(S, sec, letter, basket_size) ==
    LET res == find_next_available_slot_primary(S, sec, letter, basket_size)
        res2 == find_in_bound(S, get_overflow_section(sec), basket_size)
    IN IF res # None THEN res
       ELSE IF res2 # None THEN res2
       ELSE None


\* ------------------------------------------------------------ slot labels
RECURSIVE int_to_text(_)
int_to_text(n) == IF n < 10 THEN <<Digits[n + 1]>>
                  ELSE Append(int_to_text(n \div 10), Digits[(n % 10) + 1])

\* f"{shelf}-{row}{col}", "" for an unknown id
slot_id_to_label(S, slot_id) ==
    LET r == slot_id_to_tuple(S, slot_id)
    IN IF r = None THEN <<>>
       ELSE r[1] \o <<"-">> \o <<r[2]>> \o int_to_text(r[3])

\* s.replace("--", "-"): left-to-right, non-overlapping
RECURSIVE replace_dashes(_)
replace_dashes(s) ==
    IF Len(s) < 2 THEN s
    ELSE IF s[1] = "-" /\ s[2] = "-"
    THEN <<"-">> \o replace_dashes(SubSeq(s, 3, Len(s)))
    ELSE <<s[1]>> \o replace_dashes(Tail(s))

remove_spaces(s) == SelectSeq(s, LAMBDA ch : ch # " ")

\* s.split("-"): the parts between dashes, empty parts included
RECURSIVE split_dash(_, _)
split_dash(s, cur) ==
    IF s = <<>> THEN <<cur>>
    ELSE IF Head(s) = "-" THEN <<cur>> \o split_dash(Tail(s), <<>>)
    ELSE split_dash(Tail(s), Append(cur, Head(s)))

\* SELECT id FROM slots WHERE shelf=? AND row=? AND col=?, with a text row
slot_id_at_text(S, shelf, row_text, col) ==
    IF Len(row_text) # 1 THEN 0
    ELSE LET r == get_slot_by_position(S, shelf, row_text[1], col)
         IN IF r = None THEN 0 ELSE r[1]

\* 0 stands for None
label_to_slot_id(S, label) ==
    IF label = <<>> THEN 0
    ELSE LET s == remove_spaces(replace_dashes(upper(strip(label))))
             parts == split_dash(s, <<>>)
         IN IF s # <<>> /\ \A i \in DOMAIN s : isdigit(s[i])
            THEN IF \E x \in S : x.id = digits_value(s) THEN digits_value(s) ELSE 0
            ELSE IF Len(parts) = 2 /\ Len(parts[2]) >= 2
            THEN LET col == int(Tail(parts[2]))
                 IN IF col = None THEN 0
                    ELSE slot_id_at_text(S, parts[1], <<parts[2][1]>>, col[1])
            ELSE IF Len(parts) = 3
            THEN LET col == int(parts[3])
                 IN IF col = None THEN 0
                    ELSE slot_id_at_text(S, parts[1], parts[2], col[1])
            ELSE 0

\* --------------------------------------------------------------- patients
\* patients: set of rows [id, name, address]

\* text.split(): the maximal runs of non-blank characters
RECURSIVE split_ws(_, _)
split_ws(s, cur) ==
    IF s = <<>> THEN (IF cur = <<>> THEN <<>> ELSE <<cur>>)
    ELSE IF isspace(Head(s))
    THEN (IF cur = <<>> THEN <<>> ELSE <<cur>>) \o split_ws(Tail(s), <<>>)
    ELSE split_ws(Tail(s), Append(cur, Head(s)))

\* "IndexError" where name.strip().split()[-1] raises
get_patient_letter(Pt, patient_id) ==
    LET m == {p \in Pt : p.id = patient_id}
        name == (CHOOSE p \in m : TRUE).name
        tokens == split_ws(strip(name), <<>>)
    IN IF m = {} THEN "A"
       ELSE IF name = <<>> THEN "A"
       ELSE IF tokens = <<>> THEN "IndexError"
       ELSE upper_char(tokens[Len(tokens)][1])

\* the slot ids offered as family bins for an address
find_family_bins_by_address(Pt, P, address) ==
    IF address = <<>> THEN {}
    ELSE {pr.slot_id : pr \in {q \in P : q.slot_id # 0 /\
                \E p \in Pt : p.id = q.patient_id /\ p.address = address}}


\* ------------------------------------------------------------------ inputs
ShelfNames == { <<"F">>, <<"L">> }
RowCounts == 0..MaxRows
ColCounts == 1..MaxCols
NameInputs == { <<"j"," ","a","l">> }
AddressInputs == { <<>>, <<"x">> }
BasketInputs == {"small", "large"}
\* (lower, upper) as typed: blank, valid (lower case, padded), and unparsable
BoundPairs == { << <<>>, <<>> >>, << <<"a","1">>, <<" ","B","2">> >>,
                << <<"2","B">>, <<"a","1">> >>, << <<"a","1">>, <<"b","0">> >> }
EditableLetters == {"A", "Overflow"}

\* ------------------------------------------------------------ state helpers
NoUi == [kind |-> "none", presc |-> 0, ids |-> <<>>, shelf |-> <<>>, edit |-> 0 - 1]

Popup(kind, presc, ids, shelf, edit) ==
    [kind |-> kind, presc |-> presc, ids |-> ids, shelf |-> shelf, edit |-> edit]

\* the window that holds the grab once the popup above an edit form closes
Back(u) == IF u.edit >= 0 THEN Popup("edit", u.presc, <<>>, <<>>, u.edit) ELSE NoUi

Last(op, a, ok) == [op |-> op, a |-> a, ok |-> ok]

Range(seq) == {seq[i] : i \in DOMAIN seq}

RECURSIVE SortedSeq(_)
SortedSeq(S) == IF S = {} THEN <<>>
                ELSE <<SetMin(S)>> \o SortedSeq(S \ {SetMin(S)})

presc_row(P, id) == CHOOSE p \in P : p.id = id

set_slot_id(P, id, sid) ==
    {IF p.id = id THEN [p EXCEPT !.slot_id = sid] ELSE p : p \in P}

set_basket_size(P, id, b) ==
    {IF p.id = id THEN [p EXCEPT !.basket_size = b] ELSE p : p \in P}

Init ==
    /\ shelves = {}
    /\ slots = {}
    /\ nextSlotId = 1
    /\ sections = [L \in Letters |->
                     [shelf |-> <<>>, lower_bound |-> <<>>, upper_bound |-> <<>>]]
    /\ patients = {}
    /\ nextPatientId = 1
    /\ prescriptions = {}
    /\ nextPrescId = 1
    /\ ui = NoUi
    /\ last = Last("init", <<>>, TRUE)
    /\ Quiet

\* ------------------------------------------------------------ shelf settings
add_shelf(name_in, rows_count, cols_count) ==
    LET name == upper(strip(name_in))
        new == populate_slots_for_shelf(slots, nextSlotId, name, rows_count, cols_count)
    IN /\ ui.kind = "none"
       /\ name # <<>>
       /\ ~\E sh \in shelves : sh.name = name
       /\ nextSlotId + Cardinality(new) - 1 <= MaxSlotId
       /\ shelves' = shelves \cup
             {[name |-> name, rows_count |-> rows_count, cols_count |-> cols_count]}
       /\ slots' = slots \cup new
       /\ nextSlotId' = nextSlotId + Cardinality(new)
       /\ last' = Last("add_shelf", <<name>>, TRUE)
       /\ UNCHANGED <<sections, patients, nextPatientId, prescriptions, nextPrescId, ui,
                      blink_groups, blink_sessions, blink_call, scanner>>

\* the rename cascade of apply_edit on each table
rename_shelves(Sh, current, new_name) ==
    {IF sh.name = current THEN [sh EXCEPT !.name = new_name] ELSE sh : sh \in Sh}

rename_slots(S, current, new_name) ==
    {IF s.shelf = current THEN [s EXCEPT !.shelf = new_name] ELSE s : s \in S}

rename_sections(sec, current, new_name) ==
    [L \in DOMAIN sec |->
        IF sec[L].shelf = current THEN [sec[L] EXCEPT !.shelf = new_name] ELSE sec[L]]

set_counts(Sh, name, rows_count, cols_count) ==
    {IF sh.name = name
     THEN [sh EXCEPT !.rows_count = rows_count, !.cols_count = cols_count]
     ELSE sh : sh \in Sh}

apply_edit_slots_trimmed(S, next, current, new_name, rows_count, cols_count) ==
    {s \in rename_slots(S, current, new_name) :
        s.shelf = new_name => (ord(s.row) <= rows_count /\ s.col <= cols_count)}

\* the slots keep the old shelf name: only the shelves table is renamed
apply_edit_slots_left_behind(S, next, current, new_name, rows_count, cols_count) ==
    S \cup populate_slots_for_shelf(S, next, new_name, rows_count, cols_count)

\* the slots table after apply_edit: the rename cascade, then the populate
apply_edit_slots(S, next, current, new_name, rows_count, cols_count) ==
    rename_slots(S, current, new_name) \cup
    populate_slots_for_shelf(rename_slots(S, current, new_name), next, new_name,
                             rows_count, cols_count)

apply_edit(current, new_name_in, rows_count, cols_count) ==
    LET new_name == upper(strip(IF new_name_in = <<>> THEN current ELSE new_name_in))
        renamed == rename_slots(slots, current, new_name)
        new == populate_slots_for_shelf(renamed, nextSlotId, new_name, rows_count, cols_count)
    IN /\ ui.kind = "none"
       /\ \E sh \in shelves : sh.name = current
       /\ IF new_name # current /\ \E sh \in shelves : sh.name = new_name
          THEN /\ last' = Last("apply_edit", <<>>, FALSE)
               /\ UNCHANGED <<shelves, slots, nextSlotId, sections>>
          ELSE /\ nextSlotId + Cardinality(new) - 1 <= MaxSlotId
               /\ shelves' = set_counts(rename_shelves(shelves, current, new_name),
                                        new_name, rows_count, cols_count)
               /\ slots' = apply_edit_slots(slots, nextSlotId, current, new_name,
                                            rows_count, cols_count)
               /\ nextSlotId' = nextSlotId + Cardinality(new)
               /\ sections' = rename_sections(sections, current, new_name)
               /\ last' = Last("apply_edit", <<current, new_name>>, TRUE)
       /\ UNCHANGED <<patients, nextPatientId, prescriptions, nextPrescId, ui,
                      blink_groups, blink_sessions, blink_call, scanner>>

delete_shelf_unreferenced_only(name) ==
    /\ ui.kind = "none"
    /\ \E sh \in shelves : sh.name = name
    /\ IF \E L \in DOMAIN sections : sections[L].shelf = name
       THEN /\ last' = Last("delete_shelf", <<name>>, FALSE)
            /\ UNCHANGED <<shelves, slots>>
       ELSE /\ slots' = {s \in slots : s.shelf # name}
            /\ shelves' = {sh \in shelves : sh.name # name}
            /\ last' = Last("delete_shelf", <<name>>, TRUE)
    /\ UNCHANGED <<nextSlotId, sections, patients, nextPatientId,
                   prescriptions, nextPrescId, ui,
                   blink_groups, blink_sessions, blink_call, scanner>>

delete_shelf(name) ==
    LET occ == Cardinality({s \in slots : s.shelf = name /\ s.occupied = 1})
        refs == Cardinality({L \in DOMAIN sections : sections[L].shelf = name})
    IN /\ ui.kind = "none"
       /\ \E sh \in shelves : sh.name = name
       /\ IF occ > 0 \/ refs > 0
          THEN /\ last' = Last("delete_shelf", <<name>>, FALSE)
               /\ UNCHANGED <<shelves, slots>>
          ELSE /\ slots' = {s \in slots : s.shelf # name}
               /\ shelves' = {sh \in shelves : sh.name # name}
               /\ last' = Last("delete_shelf", <<name>>, TRUE)
       /\ UNCHANGED <<nextSlotId, sections, patients, nextPatientId,
                      prescriptions, nextPrescId, ui,
                      blink_groups, blink_sessions, blink_call, scanner>>

\* the form row of one letter as save_all_letters reads it
widget_row(w) == [shelf |-> upper(strip(w.shelf)),
                  lower_bound |-> upper(strip(w.lower_bound)),
                  upper_bound |-> upper(strip(w.upper_bound))]

row_ok_shelf_only(Sh, r) == r.shelf # <<>> => \E sh \in Sh : sh.name = r.shelf

\* the three tests save_all_letters makes on the row read from the form
row_ok(Sh, r) ==
    /\ r.shelf # <<>> => \E sh \in Sh : sh.name = r.shelf
    /\ r.lower_bound # <<>> => parse_bound(r.lower_bound) # None
    /\ r.upper_bound # <<>> => parse_bound(r.upper_bound) # None

widget_ok(Sh, w) == row_ok(Sh, widget_row(w))

LetterOrder == Alphabet \o <<"Overflow">>

\* the position in LetterOrder of the first row the loop rejects, one past
\* the end when it rejects none
first_of(bad) == IF bad = {} THEN Len(LetterOrder) + 1 ELSE SetMin(bad)

first_bad(Sh, widgets) ==
    first_of({i \in DOMAIN LetterOrder : ~widget_ok(Sh, widgets[LetterOrder[i]])})

rows_written_configured(sec, widgets, stop) ==
    [L \in {K \in DOMAIN sec :
               IF IndexIn(LetterOrder, K) < stop
               THEN widget_row(widgets[K]).shelf # <<>> ELSE TRUE} |->
        IF IndexIn(LetterOrder, L) < stop THEN widget_row(widgets[L]) ELSE sec[L]]

\* INSERT OR REPLACE of every row before position stop
rows_written(sec, widgets, stop) ==
    [L \in DOMAIN sec |->
        IF IndexIn(LetterOrder, L) < stop THEN widget_row(widgets[L]) ELSE sec[L]]

\* the rows written before the loop ends or meets the first invalid row
save_all_letters_rows(sec, Sh, widgets) ==
    rows_written(sec, widgets, first_bad(Sh, widgets))

\* the table after the form, filled from the table when the window opens
\* and with the row of letter L retyped, is saved
save_all_letters_form(sec, Sh, L, shelf_in, lo_in, up_in) ==
    save_all_letters_rows(sec, Sh,
        [sec EXCEPT ![L] = [shelf |-> shelf_in, lower_bound |-> lo_in,
                            upper_bound |-> up_in]])

save_all_letters(L, shelf_in, lo_in, up_in) ==
    /\ ui.kind = "none"
    /\ \E widgets \in {[sections EXCEPT ![L] = [shelf |-> shelf_in, lower_bound |-> lo_in,
                                                upper_bound |-> up_in]]} :
          \E stop \in {first_bad(shelves, widgets)} :
             /\ sections' = rows_written(sections, widgets, stop)
             /\ last' = Last("save_all_letters", <<L, shelf_in, lo_in, up_in>>,
                             stop > Len(LetterOrder))
    /\ UNCHANGED <<shelves, slots, nextSlotId, patients, nextPatientId,
                   prescriptions, nextPrescId, ui,
                   blink_groups, blink_sessions, blink_call, scanner>>


\* ---------------------------------------------------------------- patients
add_patient(name_in, addr_in) ==
    /\ ui.kind = "none"
    /\ strip(name_in) # <<>>
    /\ nextPatientId <= MaxPatients
    /\ patients' = patients \cup
          {[id |-> nextPatientId, name |-> strip(name_in), address |-> strip(addr_in)]}
    /\ nextPatientId' = nextPatientId + 1
    /\ last' = Last("add_patient", <<nextPatientId>>, TRUE)
    /\ UNCHANGED <<shelves, slots, nextSlotId, sections, prescriptions, nextPrescId, ui,
                   blink_groups, blink_sessions, blink_call, scanner>>

save_patient(pid, name_in, addr_in) ==
    /\ ui.kind = "none"
    /\ \E p \in patients : p.id = pid
    /\ patients' = {IF p.id = pid
                    THEN [p EXCEPT !.name = strip(name_in), !.address = strip(addr_in)]
                    ELSE p : p \in patients}
    /\ last' = Last("save_patient", <<pid>>, TRUE)
    /\ UNCHANGED <<shelves, slots, nextSlotId, sections, nextPatientId,
                   prescriptions, nextPrescId, ui,
                   blink_groups, blink_sessions, blink_call, scanner>>

\* the slot ids delete_selected_patient frees: the slot_id column only
patient_sids(P, pid) == {p.slot_id : p \in {q \in P : q.patient_id = pid /\ q.slot_id # 0}}

delete_selected_patient(pid) ==
    /\ ui.kind = "none"
    /\ \E p \in patients : p.id = pid
    /\ slots' = mark_slots_free(slots, patient_sids(prescriptions, pid))
    /\ prescriptions' = {p \in prescriptions : p.patient_id # pid}
    /\ patients' = {p \in patients : p.id # pid}
    /\ last' = Last("delete_selected_patient", <<pid>>, TRUE)
    /\ UNCHANGED <<shelves, nextSlotId, sections, nextPatientId, nextPrescId, ui,
                   blink_groups, blink_sessions, blink_call, scanner>>

\* ------------------------------------------------------------- auto-assign
\* the search run on the occupancy flags as they stand, without the repair
auto_assign_slots_unrepaired(S, P) == S

\* auto_assign_for_patient: the occupancy after its repair
auto_assign_slots(S, P) == repair_slot_occupancy(S, P)

\* auto_assign_for_patient: the proposal, searched in the repaired occupancy
\* for the letter of the patient
auto_assign_for_patient(repaired, sec, letter, basket_size) ==
    find_next_available_slot_with_overflow(repaired, sec, letter, basket_size)

\* after_no_family of _add_prescription: repair, search, then the confirm
\* popup for a proposal or the manual popup for none
after_no_family(P, pid, presc_id, basket_size) ==
    /\ slots' = auto_assign_slots(slots, P)
    /\ \E letter \in {get_patient_letter(patients, pid)} :
          \E res \in {auto_assign_for_patient(slots', sections, letter, basket_size)} :
             ui' = IF res = None
                   THEN Popup("manual", presc_id, <<>>, <<>>, 0 - 1)
                   ELSE Popup("confirm", presc_id, res[1], res[2], 0 - 1)

add_prescription(pid, address_in, basket_size) ==
    LET P1 == prescriptions \cup
                {[id |-> nextPrescId, patient_id |-> pid,
                  basket_size |-> basket_size, slot_id |-> 0]}
        choices == find_family_bins_by_address(patients, P1, strip(address_in))
    IN /\ ui.kind = "none"
       /\ \E p \in patients : p.id = pid
       /\ nextPrescId <= MaxPresc
       /\ prescriptions' = P1
       /\ nextPrescId' = nextPrescId + 1
       /\ IF choices = {}
          THEN after_no_family(P1, pid, nextPrescId, basket_size)
          ELSE /\ ui' = Popup("family", nextPrescId, SortedSeq(choices), <<>>, 0 - 1)
               /\ UNCHANGED slots
       /\ last' = Last("add_prescription", <<nextPrescId>>, TRUE)
       /\ UNCHANGED <<shelves, nextSlotId, sections, patients, nextPatientId,
                      blink_groups, blink_sessions, blink_call, scanner>>

\* the chosen bin marked occupied again, with the neighbour of a large basket
bin_with_selected_marking(sid) ==
    /\ ui.kind = "family"
    /\ sid \in Range(ui.ids)
    /\ prescriptions' = set_slot_id(prescriptions, ui.presc, sid)
    /\ slots' = mark_slots_occupied(slots,
                    expand_slots_for_large_display_or_freeing(slots, prescriptions', ui.presc))
    /\ ui' = NoUi
    /\ last' = Last("bin_with_selected", <<ui.presc, sid>>, TRUE)
    /\ UNCHANGED <<shelves, nextSlotId, sections, patients, nextPatientId, nextPrescId,
                   blink_groups, blink_sessions, blink_call, scanner>>

\* try_family_bin_popup: "Bin With Selected"
bin_with_selected(sid) ==
    /\ ui.kind = "family"
    /\ sid \in Range(ui.ids)
    /\ prescriptions' = set_slot_id(prescriptions, ui.presc, sid)
    /\ ui' = NoUi
    /\ last' = Last("bin_with_selected", <<ui.presc, sid>>, TRUE)
    /\ UNCHANGED <<shelves, slots, nextSlotId, sections, patients, nextPatientId,
                   nextPrescId,
                   blink_groups, blink_sessions, blink_call, scanner>>

\* try_family_bin_popup: "Skip"
skip_family ==
    /\ ui.kind = "family"
    /\ after_no_family(prescriptions, presc_row(prescriptions, ui.presc).patient_id,
                       ui.presc, presc_row(prescriptions, ui.presc).basket_size)
    /\ last' = Last("skip_family", <<ui.presc>>, TRUE)
    /\ UNCHANGED <<shelves, nextSlotId, sections, patients, nextPatientId,
                   prescriptions, nextPrescId,
                   blink_groups, blink_sessions, blink_call, scanner>>

\* confirm_auto_assign_popup: accept
accept ==
    /\ ui.kind = "confirm"
    /\ slots' = mark_slots_occupied(slots, Range(ui.ids))
    /\ prescriptions' = set_slot_id(prescriptions, ui.presc, ui.ids[1])
    /\ ui' = Back(ui)
    /\ last' = Last("accept", <<ui.presc, ui.ids>>, TRUE)
    /\ UNCHANGED <<shelves, nextSlotId, sections, patients, nextPatientId, nextPrescId,
                   blink_groups, blink_sessions, blink_call, scanner>>

\* confirm_auto_assign_popup: deny opens the manual popup
deny ==
    /\ ui.kind = "confirm"
    /\ ui' = Popup("manual", ui.presc, <<>>, <<>>, ui.edit)
    /\ last' = Last("deny", <<ui.presc>>, TRUE)
    /\ UNCHANGED <<shelves, slots, nextSlotId, sections, patients, nextPatientId,
                   prescriptions, nextPrescId,
                   blink_groups, blink_sessions, blink_call, scanner>>

\* manual_assign_popup: the slots assign() reserves, None where it shows an error
assign_target(S, b, s, row, col) ==
    LET rec == get_slot_by_position(S, s, row, col)
        rec2 == get_slot_by_position(S, s, row, col + 1)
    IN IF rec = None THEN None
       ELSE IF rec[2] # 0 THEN None
       ELSE IF b = "large"
       THEN IF rec2 = None THEN None
            ELSE IF rec2[2] # 0 THEN None
            ELSE <<rec[1], rec2[1]>>
       ELSE <<rec[1]>>

assign(s_in, row_in, col) ==
    LET b == basket_of(presc_row(prescriptions, ui.presc).basket_size)
        target == assign_target(slots, b, upper(strip(s_in)), upper_char(row_in), col)
    IN /\ ui.kind = "manual"
       /\ IF target = None
          THEN /\ last' = Last("assign", <<ui.presc, <<>> >>, FALSE)
               /\ UNCHANGED <<slots, prescriptions, ui>>
          ELSE /\ slots' = mark_slots_occupied(slots, Range(target))
               /\ prescriptions' = set_slot_id(prescriptions, ui.presc, target[1])
               /\ ui' = Back(ui)
               /\ last' = Last("assign", <<ui.presc, target>>, TRUE)
       /\ UNCHANGED <<shelves, nextSlotId, sections, patients, nextPatientId, nextPrescId,
                      blink_groups, blink_sessions, blink_call, scanner>>

\* a popup closed by its window button or its Cancel button: nothing is written
close_popup ==
    /\ ui.kind \in {"family", "confirm", "manual", "edit", "clear"}
    /\ ui' = IF ui.kind \in {"confirm", "manual"} THEN Back(ui) ELSE NoUi
    /\ last' = Last("close_popup", <<>>, TRUE)
    /\ UNCHANGED <<shelves, slots, nextSlotId, sections, patients, nextPatientId,
                   prescriptions, nextPrescId,
                   blink_groups, blink_sessions, blink_call, scanner>>


\* ------------------------------------------------------ edit prescription
\* _edit_prescription_popup: the form captures the slot_id it was opened with
open_edit(pres_id) ==
    /\ ui.kind = "none"
    /\ \E p \in prescriptions : p.id = pres_id
    /\ ui' = Popup("edit", pres_id, <<>>, <<>>, presc_row(prescriptions, pres_id).slot_id)
    /\ last' = Last("open_edit", <<pres_id>>, TRUE)
    /\ UNCHANGED <<shelves, slots, nextSlotId, sections, patients, nextPatientId,
                   prescriptions, nextPrescId,
                   blink_groups, blink_sessions, blink_call, scanner>>

\* save_edit: the slot the location field resolves to (0 for an empty field)
save_edit_new_sid(S, new_loc) ==
    IF strip(new_loc) # <<>> THEN label_to_slot_id(S, strip(new_loc)) ELSE 0

\* save_edit: the slot rows after a move from slot_id to new_sid
save_edit_slots(S, slot_id, new_sid) ==
    mark_slots_occupied(
        IF slot_id # 0 THEN mark_slots_free(S, {slot_id}) ELSE S, {new_sid})

save_edit(new_b, new_loc) ==
    LET slot_id == ui.edit
        new_sid == save_edit_new_sid(slots, new_loc)
        moves == new_sid # 0 /\ new_sid # slot_id
        occ == get_slot_by_position(slots, slot_id_to_tuple(slots, new_sid)[1],
                                    slot_id_to_tuple(slots, new_sid)[2],
                                    slot_id_to_tuple(slots, new_sid)[3])[2]
    IN /\ ui.kind = "edit"
       /\ IF moves /\ occ = 1
          THEN /\ last' = Last("save_edit", <<ui.presc, new_sid>>, FALSE)
               /\ UNCHANGED <<slots, prescriptions, ui>>
          ELSE /\ slots' = IF moves THEN save_edit_slots(slots, slot_id, new_sid)
                           ELSE slots
               /\ prescriptions' = set_basket_size(
                      IF moves THEN set_slot_id(prescriptions, ui.presc, new_sid)
                      ELSE prescriptions, ui.presc, new_b)
               /\ ui' = NoUi
               /\ last' = Last("save_edit", <<ui.presc, new_sid>>, TRUE)
       /\ UNCHANGED <<shelves, nextSlotId, sections, patients, nextPatientId, nextPrescId,
                      blink_groups, blink_sessions, blink_call, scanner>>

\* auto_assign_here -> auto_reassign_in_section: repair, search, confirm popup
auto_reassign_in_section ==
    LET rec == presc_row(prescriptions, ui.presc)
    IN /\ ui.kind = "edit"
       /\ slots' = auto_assign_slots(repair_slot_occupancy(slots, prescriptions),
                                     prescriptions)
       /\ \E letter \in {get_patient_letter(patients, rec.patient_id)},
             b \in {basket_of(rec.basket_size)} :
             \E res \in {auto_assign_for_patient(slots', sections, letter, b)} :
                /\ ui' = IF res = None THEN ui
                         ELSE Popup("confirm", ui.presc, res[1], res[2], ui.edit)
                /\ last' = Last("auto_reassign_in_section", <<ui.presc>>, res # None)
       /\ UNCHANGED <<shelves, nextSlotId, sections, patients, nextPatientId,
                      prescriptions, nextPrescId,
                      blink_groups, blink_sessions, blink_call, scanner>>

\* ------------------------------------------------------------- deletions
\* the slot ids delete_selected_prescriptions frees for one prescription
delete_frees(S, P, prid) ==
    LET rec == presc_row(P, prid)
    IN IF rec.slot_id = 0 THEN {}
       ELSE IF basket_of(rec.basket_size) = "large"
       THEN expand_slots_for_large_display_or_freeing(S, P, prid)
       ELSE {rec.slot_id}

delete_selected_prescriptions(sel) ==
    /\ ui.kind = "none"
    /\ sel # {}
    /\ slots' = mark_slots_free(slots,
                    UNION {delete_frees(slots, prescriptions, prid) : prid \in sel})
    /\ prescriptions' = {p \in prescriptions : p.id \notin sel}
    /\ last' = Last("delete_selected_prescriptions", <<sel>>, TRUE)
    /\ UNCHANGED <<shelves, nextSlotId, sections, patients, nextPatientId,
                   nextPrescId, ui,
                   blink_groups, blink_sessions, blink_call, scanner>>

\* the slots clear_all_prescriptions_with_led collects for a patient
clear_all_slots(S, P, patient_id) ==
    UNION {expand_slots_for_large_display_or_freeing(S, P, p.id) :
              p \in {q \in P : q.patient_id = patient_id}}

\* clear_all_prescriptions_with_led: delete at once when no slot is held,
\* otherwise blink the slots and ask for confirmation
clear_all_prescriptions_with_led(patient_id) ==
    LET held == clear_all_slots(slots, prescriptions, patient_id)
    IN /\ ui.kind = "none"
       /\ \E p \in patients : p.id = patient_id
       /\ IF held = {}
          THEN /\ prescriptions' = {p \in prescriptions : p.patient_id # patient_id}
               /\ UNCHANGED ui
          ELSE /\ ui' = Popup("clear", patient_id, SortedSeq(held), <<>>, 0 - 1)
               /\ UNCHANGED prescriptions
       /\ last' = Last("clear_all_prescriptions_with_led", <<patient_id>>, held = {})
       /\ UNCHANGED <<shelves, slots, nextSlotId, sections, patients, nextPatientId,
                      nextPrescId,
                      blink_groups, blink_sessions, blink_call, scanner>>

\* clear_all_prescriptions_with_led: confirm
confirm ==
    /\ ui.kind = "clear"
    /\ slots' = mark_slots_free(slots, Range(ui.ids))
    /\ prescriptions' = {p \in prescriptions : p.patient_id # ui.presc}
    /\ ui' = NoUi
    /\ last' = Last("confirm", <<ui.presc>>, TRUE)
    /\ UNCHANGED <<shelves, nextSlotId, sections, patients, nextPatientId, nextPrescId,
                   blink_groups, blink_sessions, blink_call, scanner>>

\* ----------------------------------------------------------------- startup
\* App.__init__: the occupancy repair at every start of the application
restart ==
    /\ slots' = repair_slot_occupancy(slots, prescriptions)
    /\ ui' = NoUi
    /\ last' = Last("repair_slot_occupancy",
                    <<IF last.op = "repair_slot_occupancy" THEN "again" ELSE "first">>, TRUE)
    /\ UNCHANGED <<shelves, nextSlotId, sections, patients, nextPatientId,
                   prescriptions, nextPrescId,
                   blink_groups, blink_sessions, blink_call, scanner>>

\* ----------------------------------------------------------- specification
ManualRows == {chr(i) : i \in 1..MaxRows}
ManualCols == 1..(MaxCols + 1)

\* the location field: empty, the label of a slot that exists, a label of none
LocInputs ==
    {<<>>, <<"F", "-", "B", "9">>} \cup {slot_id_to_label(slots, s.id) : s \in slots}

\* the handlers of the shelf-settings window
NextShelves ==
    \/ \E n \in ShelfNames, r \in RowCounts, c \in ColCounts : add_shelf(n, r, c)
    \/ \E cur \in ShelfNames, r \in RowCounts, c \in ColCounts :
          \E n \in (ShelfNames \ {cur}) \cup {<<>>} : apply_edit(cur, n, r, c)
    \/ \E n \in ShelfNames : delete_shelf(n)

\* the letter-sections form of the same window
NextSections ==
    \E L \in EditableLetters, s \in ShelfNames \cup {<<>>}, b \in BoundPairs :
       save_all_letters(L, s, b[1], b[2])

\* the handlers of the patient table, the patient window and its popups
NextLedger ==
    \/ \E n \in NameInputs, a \in AddressInputs : add_patient(n, a)
    \/ \E pid \in 1..MaxPatients, n \in NameInputs, a \in AddressInputs :
          save_patient(pid, n, a)
    \/ \E pid \in 1..MaxPatients : delete_selected_patient(pid)
    \/ \E pid \in 1..MaxPatients, a \in AddressInputs, b \in BasketInputs :
          add_prescription(pid, a, b)
    \/ \E sid \in {s.id : s \in slots} : bin_with_selected(sid)
    \/ skip_family
    \/ accept
    \/ deny
    \/ \E s \in ShelfNames, row \in ManualRows, col \in ManualCols : assign(s, row, col)
    \/ close_popup
    \/ \E prid \in 1..MaxPresc : open_edit(prid)
    \/ \E b \in BasketInputs, loc \in LocInputs : save_edit(b, loc)
    \/ auto_reassign_in_section
    \/ \E pid \in 1..MaxPatients :
          \E sel \in SUBSET {p.id : p \in {q \in prescriptions : q.patient_id = pid}} :
             delete_selected_prescriptions(sel)
    \/ \E pid \in 1..MaxPatients : clear_all_prescriptions_with_led(pid)
    \/ confirm
    \/ restart

\* A configured pharmacy: shelf F (1 x 3) and shelf L (1 x 1) added in that
\* order through add_shelf, then sections A (F A1..A2, so that F-A3 lies
\* outside every section) and Overflow (L A1..A1) saved through
\* save_all_letters.
ConfiguredShelves ==
    { [name |-> <<"F">>, rows_count |-> 1, cols_count |-> 3],
      [name |-> <<"L">>, rows_count |-> 1, cols_count |-> 1] }

ConfiguredSlots ==
    { [id |-> 1, shelf |-> <<"F">>, row |-> "A", col |-> 1, occupied |-> 0],
      [id |-> 2, shelf |-> <<"F">>, row |-> "A", col |-> 2, occupied |-> 0],
      [id |-> 3, shelf |-> <<"F">>, row |-> "A", col |-> 3, occupied |-> 0],
      [id |-> 4, shelf |-> <<"L">>, row |-> "A", col |-> 1, occupied |-> 0] }

\* A two-row layout for the snapshots of the repair and the search: shelf F
\* (2 x 2) and shelf L (1 x 1), added in that order through add_shelf.
TwoRowShelves ==
    { [name |-> <<"F">>, rows_count |-> 2, cols_count |-> 2],
      [name |-> <<"L">>, rows_count |-> 1, cols_count |-> 1] }

TwoRowSlots ==
    { [id |-> 1, shelf |-> <<"F">>, row |-> "A", col |-> 1, occupied |-> 0],
      [id |-> 2, shelf |-> <<"F">>, row |-> "A", col |-> 2, occupied |-> 0],
      [id |-> 3, shelf |-> <<"F">>, row |-> "B", col |-> 1, occupied |-> 0],
      [id |-> 4, shelf |-> <<"F">>, row |-> "B", col |-> 2, occupied |-> 0],
      [id |-> 5, shelf |-> <<"L">>, row |-> "A", col |-> 1, occupied |-> 0] }

ConfiguredSections ==
    [L \in Letters |->
       IF L = "A" THEN [shelf |-> <<"F">>, lower_bound |-> <<"A","1">>,
                        upper_bound |-> <<"A","2">>]
       ELSE IF L = "Overflow" THEN [shelf |-> <<"L">>, lower_bound |-> <<"A","1">>,
                                    upper_bound |-> <<"A","1">>]
       ELSE [shelf |-> <<>>, lower_bound |-> <<>>, upper_bound |-> <<>>]]

Configured ==
    /\ shelves = ConfiguredShelves
    /\ slots = ConfiguredSlots
    /\ sections = ConfiguredSections

InitLedger ==
    /\ Configured
    /\ nextSlotId = 5
    /\ patients = {}
    /\ nextPatientId = 1
    /\ prescriptions = {}
    /\ nextPrescId = 1
    /\ ui = NoUi
    /\ last = Last("init", <<>>, TRUE)
    /\ Quiet

\* the ledger of a configured pharmacy
Spec == InitLedger /\ [][NextLedger]_vars

\* A pharmacy in use: shelf F (1 x 2) added through add_shelf, section A
\* saved as F A1..A2, one patient with one prescription placed on a slot
\* (auto-assign, manual assign, or a basket edit afterwards), ledger repaired.
InUsePrescriptions ==
    { {[id |-> 1, patient_id |-> 1, basket_size |-> b, slot_id |-> sid]} :
         b \in BasketInputs, sid \in {1, 2} }

InitInUse ==
    /\ shelves = {[name |-> <<"F">>, rows_count |-> 1, cols_count |-> 2]}
    /\ prescriptions \in InUsePrescriptions
    /\ slots = repair_slot_occupancy(
                  { [id |-> 1, shelf |-> <<"F">>, row |-> "A", col |-> 1, occupied |-> 0],
                    [id |-> 2, shelf |-> <<"F">>, row |-> "A", col |-> 2, occupied |-> 0] },
                  prescriptions)
    /\ nextSlotId = 3
    /\ sections = [L \in Letters |->
                     IF L = "A" THEN [shelf |-> <<"F">>, lower_bound |-> <<"A","1">>,
                                      upper_bound |-> <<"A","2">>]
                     ELSE [shelf |-> <<>>, lower_bound |-> <<>>, upper_bound |-> <<>>]]
    /\ patients = {[id |-> 1, name |-> <<"a","l">>, address |-> <<>>]}
    /\ nextPatientId = 2
    /\ nextPrescId = 2
    /\ ui = NoUi
    /\ last = Last("init", <<>>, TRUE)
    /\ Quiet

\* the shelf settings, from the empty database and from a pharmacy in use
SpecShelves == (Init \/ InitInUse) /\ [][NextShelves]_vars




\* ------------------------------------------- the repair, from any ledger
\* Any occupancy flags and any prescriptions over the configured layout,
\* slot references to no slot (0: NULL, 6: a deleted slot) included.
AnyOccupancy(S) ==
    { {[s EXCEPT !.occupied = IF s.id \in occ THEN 1 ELSE 0] : s \in S} :
         occ \in SUBSET {s.id : s \in S} }

AnyPrescriptions ==
    UNION { { {[id |-> i, patient_id |-> 1, basket_size |-> f[i].b, slot_id |-> f[i].sid] :
                 i \in 1..n} :
              f \in [1..n -> [b : BasketInputs, sid : 0..6]] } :
            n \in 0..MaxPresc }

InitRepair ==
    /\ shelves = TwoRowShelves
    /\ sections = ConfiguredSections
    /\ slots \in AnyOccupancy(TwoRowSlots)
    /\ nextSlotId = 6
    /\ patients = {[id |-> 1, name |-> <<"a","l">>, address |-> <<>>]}
    /\ nextPatientId = 2
    /\ prescriptions \in AnyPrescriptions
    /\ nextPrescId = MaxPresc + 1
    /\ ui = NoUi
    /\ last = Last("init", <<>>, TRUE)
    /\ Quiet

SpecRepair == InitRepair /\ [][restart]_vars

\* ------------------------------------------- the scan, from any snapshot
\* One shelf of ScanRows x ScanCols with any occupancy; the scan is applied
\* to every bound over the extent and one row and one column beyond it.
ScanShelf == <<"F">>

ScanSlots ==
    {[id |-> (i - 1) * ScanCols + c, shelf |-> ScanShelf, row |-> chr(i), col |-> c,
      occupied |-> 0] : i \in 1..ScanRows, c \in 1..ScanCols}

ScanRowInputs == {chr(i) : i \in 1..(ScanRows + 1)}
ScanColInputs == 1..(ScanCols + 1)

InitFind ==
    /\ shelves = {[name |-> ScanShelf, rows_count |-> ScanRows, cols_count |-> ScanCols]}
    /\ sections = [L \in Letters |->
                     [shelf |-> <<>>, lower_bound |-> <<>>, upper_bound |-> <<>>]]
    /\ slots \in AnyOccupancy(ScanSlots)
    /\ nextSlotId = ScanRows * ScanCols + 1
    /\ patients = {}
    /\ nextPatientId = 1
    /\ prescriptions = {}
    /\ nextPrescId = 1
    /\ ui = NoUi
    /\ last = Last("init", <<>>, TRUE)
    /\ Quiet

\* a call of find_slot_in_section: its arguments and its result are recorded
scan(shelf_name, start_row, start_col, end_row, end_col, basket_size) ==
    LET res == find_slot_in_section(slots, shelf_name, start_row, start_col,
                                    end_row, end_col, basket_size)
    IN /\ IF last.op = "init" THEN TRUE
          ELSE SubSeq(last.a, 1, 6) =
                 <<shelf_name, start_row, start_col, end_row, end_col, basket_size>>
       /\ last' = Last("find_slot_in_section",
                       <<shelf_name, start_row, start_col, end_row, end_col,
                         basket_size, res>>, res # None)
       /\ UNCHANGED <<shelves, slots, nextSlotId, sections, patients, nextPatientId,
                      prescriptions, nextPrescId, ui,
                      blink_groups, blink_sessions, blink_call, scanner>>

NextFind ==
    \E sr \in ScanRowInputs, sc \in ScanColInputs, er \in ScanRowInputs,
       ec \in ScanColInputs, b \in BasketInputs :
          scan(ScanShelf, sr, sc, er, ec, b)

SpecFind == InitFind /\ [][NextFind]_vars

\* ---------------------------------- the overflow fallback, from any snapshot
\* The configured shelves with any occupancy; the sections of a letter and
\* of Overflow drawn from blank, valid and unparsable settings.
SectionRow(shelf, lo, up) == [shelf |-> shelf, lower_bound |-> lo, upper_bound |-> up]

PrimaryInputs ==
    { SectionRow(<<>>, <<>>, <<>>),
      SectionRow(<<>>, <<"A","1">>, <<"A","2">>),
      SectionRow(<<"F">>, <<"A","1">>, <<"A","2">>),
      SectionRow(<<"F">>, <<"A","2">>, <<"B","1">>),
      SectionRow(<<"F">>, <<"A","1">>, <<>>) }

OverflowInputs ==
    { SectionRow(<<>>, <<>>, <<>>),
      SectionRow(<<"L">>, <<"A","1">>, <<"A","1">>),
      SectionRow(<<"F">>, <<"B","1">>, <<"B","2">>),
      SectionRow(<<"L">>, <<>>, <<"A","1">>) }

InitOverflow ==
    /\ shelves = TwoRowShelves
    /\ \E pr \in PrimaryInputs, ov \in OverflowInputs :
          sections = [L \in Letters |->
                        IF L = "A" THEN pr
                        ELSE IF L = "Overflow" THEN ov
                        ELSE SectionRow(<<>>, <<>>, <<>>)]
    /\ slots \in AnyOccupancy(TwoRowSlots)
    /\ nextSlotId = 6
    /\ patients = {}
    /\ nextPatientId = 1
    /\ prescriptions = {}
    /\ nextPrescId = 1
    /\ ui = NoUi
    /\ last = Last("init", <<>>, TRUE)
    /\ Quiet

\* a call of find_next_available_slot_with_overflow
search(letter, basket_size) ==
    LET res == find_next_available_slot_with_overflow(slots, sections, letter, basket_size)
    IN /\ last' = Last("find_next_available_slot_with_overflow",
                       <<letter, basket_size, res>>, res # None)
       /\ UNCHANGED <<shelves, slots, nextSlotId, sections, patients, nextPatientId,
                      prescriptions, nextPrescId, ui,
                      blink_groups, blink_sessions, blink_call, scanner>>

\* a call of find_next_available_slot_primary
search_primary(letter, basket_size) ==
    LET res == find_next_available_slot_primary(slots, sections, letter, basket_size)
    IN /\ last' = Last("find_next_available_slot_primary",
                       <<letter, basket_size, res>>, res # None)
       /\ UNCHANGED <<shelves, slots, nextSlotId, sections, patients, nextPatientId,
                      prescriptions, nextPrescId, ui,
                      blink_groups, blink_sessions, blink_call, scanner>>

NextOverflow ==
    \/ \E L \in {"A", "B"}, b \in BasketInputs : search(L, b)
    \/ \E L \in {"A", "B"}, b \in BasketInputs : search_primary(L, b)

SpecOverflow == InitOverflow /\ [][NextOverflow]_vars

\* ------------------------------------------------------ section registry
\* A pharmacy with shelf F (1 x 2) added through add_shelf, no section saved
\* yet, and either no prescription or one small-basket prescription placed
\* on F-A2.
RegistryPrescriptions(occ) ==
    {[id |-> i, patient_id |-> 1, basket_size |-> "small",
      slot_id |-> SortedSeq(occ)[i]] : i \in 1..Cardinality(occ)}

InitRegistry ==
    /\ shelves = {[name |-> <<"F">>, rows_count |-> 1, cols_count |-> 2]}
    /\ \E occ \in {{}, {2}} :
          /\ prescriptions = RegistryPrescriptions(occ)
          /\ slots =
               { [id |-> 1, shelf |-> <<"F">>, row |-> "A", col |-> 1,
                  occupied |-> IF 1 \in occ THEN 1 ELSE 0],
                 [id |-> 2, shelf |-> <<"F">>, row |-> "A", col |-> 2,
                  occupied |-> IF 2 \in occ THEN 1 ELSE 0] }
          /\ nextPrescId = Cardinality(occ) + 1
    /\ nextSlotId = 3
    /\ sections = [L \in Letters |-> [shelf |-> <<>>, lower_bound |-> <<>>,
                                      upper_bound |-> <<>>]]
    /\ patients = {[id |-> 1, name |-> <<"a","l">>, address |-> <<>>]}
    /\ nextPatientId = 2
    /\ ui = NoUi
    /\ last = Last("init", <<>>, TRUE)
    /\ Quiet

\* the shelf-settings window: the letter-sections form, and shelves added
\* (1 x 1), renamed with their dimensions kept, and deleted
NextRegistry ==
    \/ NextSections
    \/ \E n \in ShelfNames : add_shelf(n, 1, 1)
    \/ \E sh \in shelves, n \in ShelfNames :
          n # sh.name /\ apply_edit(sh.name, n, sh.rows_count, sh.cols_count)
    \/ \E n \in ShelfNames : delete_shelf(n)

SpecRegistry == InitRegistry /\ [][NextRegistry]_vars

\* ------------------------------------------------------------ filing letter
\* longest name text drawn for the name column
MaxNameLen == 4

NameChars == {" ", "a", "B"}

RECURSIVE Texts(_, _)
Texts(chars, n) ==
    IF n = 0 THEN {<<>>}
    ELSE Texts(chars, n - 1) \cup
         {Append(s, c) : s \in {x \in Texts(chars, n - 1) : Len(x) = n - 1}, c \in chars}

\* The patients table with one row; the name column is TEXT and holds any text.
InitLetter ==
    /\ shelves = {}
    /\ slots = {}
    /\ nextSlotId = 1
    /\ sections = [L \in Letters |-> SectionRow(<<>>, <<>>, <<>>)]
    /\ \E nm \in Texts(NameChars, MaxNameLen) :
          patients = {[id |-> 1, name |-> nm, address |-> <<>>]}
    /\ nextPatientId = 2
    /\ prescriptions = {}
    /\ nextPrescId = 1
    /\ ui = NoUi
    /\ last = Last("init", <<>>, TRUE)
    /\ Quiet

\* a call of get_patient_letter
letter_of(patient_id) ==
    /\ last' = Last("get_patient_letter",
                    <<patient_id, get_patient_letter(patients, patient_id)>>,
                    get_patient_letter(patients, patient_id) # "IndexError")
    /\ UNCHANGED <<shelves, slots, nextSlotId, sections, patients, nextPatientId,
                   prescriptions, nextPrescId, ui,
                   blink_groups, blink_sessions, blink_call, scanner>>

NextLetter == \E pid \in 1..2 : letter_of(pid)

SpecLetter == InitLetter /\ [][NextLetter]_vars

\* -------------------------------------------------------- section membership
\* the column bounds applied on every row of the section
is_slot_in_letter_section_rectangle(S, sec, letter, slot_id) ==
    LET s == get_letter_section(sec, letter)
        slot == slot_id_to_tuple(S, slot_id)
    IN IF letter = "Overflow" THEN TRUE
       ELSE IF s = None THEN TRUE
       ELSE IF slot = None THEN TRUE
       ELSE IF slot[1] # s[1] THEN FALSE
       ELSE IF ord(slot[2]) < ord(s[2]) \/ ord(slot[2]) > ord(s[4]) THEN FALSE
       ELSE IF slot[3] < s[3] THEN FALSE
       ELSE IF slot[3] > s[5] THEN FALSE
       ELSE TRUE

is_slot_in_letter_section(S, sec, letter, slot_id) ==
    LET s == get_letter_section(sec, letter)
        slot == slot_id_to_tuple(S, slot_id)
    IN IF letter = "Overflow" THEN TRUE
       ELSE IF s = None THEN TRUE
       ELSE IF slot = None THEN TRUE
       ELSE IF slot[1] # s[1] THEN FALSE
       ELSE IF ord(slot[2]) < ord(s[2]) \/ ord(slot[2]) > ord(s[4]) THEN FALSE
       ELSE IF slot[2] = s[2] /\ slot[3] < s[3] THEN FALSE
       ELSE IF slot[2] = s[4] /\ slot[3] > s[5] THEN FALSE
       ELSE TRUE

\* rows and columns of the shelf the membership test is exercised on
MemberRows == 4
MemberCols == 16

\* Shelf F (MemberRows x MemberCols) and shelf L (1 x 1), added in that order.
MemberShelves ==
    { [name |-> <<"F">>, rows_count |-> MemberRows, cols_count |-> MemberCols],
      [name |-> <<"L">>, rows_count |-> 1, cols_count |-> 1] }

MemberSlots ==
    populate_slots_for_shelf({}, 1, <<"F">>, MemberRows, MemberCols) \cup
    populate_slots_for_shelf({}, MemberRows * MemberCols + 1, <<"L">>, 1, 1)

\* rows of letter A: rows B-D columns 5-15 on F, one row of F, a span whose
\* start row lies below its end row, a span on L, and unconfigured rows
MemberInputs ==
    { SectionRow(<<"F">>, <<"B","5">>, <<"D","1","5">>),
      SectionRow(<<"F">>, <<"B","5">>, <<"B","1","5">>),
      SectionRow(<<"F">>, <<"D","5">>, <<"B","1","5">>),
      SectionRow(<<"L">>, <<"A","1">>, <<"D","1","5">>),
      SectionRow(<<"F">>, <<"B","5">>, <<>>),
      SectionRow(<<>>, <<"B","5">>, <<"D","1","5">>) }

InitMember ==
    /\ shelves = MemberShelves
    /\ slots = MemberSlots
    /\ nextSlotId = MemberRows * MemberCols + 2
    /\ \E r \in MemberInputs :
          sections = [L \in Letters |->
                        IF L = "A" THEN r
                        ELSE IF L = "Overflow"
                        THEN SectionRow(<<"L">>, <<"A","1">>, <<"A","1">>)
                        ELSE SectionRow(<<>>, <<>>, <<>>)]
    /\ patients = {}
    /\ nextPatientId = 1
    /\ prescriptions = {}
    /\ nextPrescId = 1
    /\ ui = NoUi
    /\ last = Last("init", <<>>, TRUE)
    /\ Quiet

\* a call of is_slot_in_letter_section
member(letter, slot_id) ==
    /\ last' = Last("is_slot_in_letter_section", <<letter, slot_id>>,
                    is_slot_in_letter_section(slots, sections, letter, slot_id))
    /\ UNCHANGED <<shelves, slots, nextSlotId, sections, patients, nextPatientId,
                   prescriptions, nextPrescId, ui,
                   blink_groups, blink_sessions, blink_call, scanner>>

NextMember ==
    \E L \in {"A", "B", "Overflow"}, sid \in 1..nextSlotId : member(L, sid)

SpecMember == InitMember /\ [][NextMember]_vars

\* --------------------------------------------------------------- label codec
\* names typed in the shelf-settings window: add_shelf and apply_edit take any
\* text that is not blank
CodecNames == { <<"f">>, <<"F", "L">>, <<"F", "-", "L">>, <<"F", " ", "L">> }

\* the texts handed to label_to_slot_id for slot (shelf, row, col) with id sid
label_form(form, sid, shelf, row, col) ==
    IF form = "label" THEN shelf \o <<"-">> \o <<row>> \o int_to_text(col)
    ELSE IF form = "dashed" THEN shelf \o <<"-">> \o <<row>> \o <<"-">> \o int_to_text(col)
    ELSE int_to_text(sid)

LabelForms == {"label", "dashed", "id"}

\* a call of label_to_slot_id on one of the forms of an existing slot
decode(sid, form) ==
    /\ \E s \in slots : s.id = sid
    /\ \E s \in {slot_id_to_tuple(slots, sid)} :
          \E text \in {IF form = "label" THEN slot_id_to_label(slots, sid)
                       ELSE label_form(form, sid, s[1], s[2], s[3])} :
             last' = Last("label_to_slot_id", <<sid, form, text>>,
                          label_to_slot_id(slots, text) = sid)
    /\ UNCHANGED <<shelves, slots, nextSlotId, sections, patients, nextPatientId,
                   prescriptions, nextPrescId, ui,
                   blink_groups, blink_sessions, blink_call, scanner>>

\* a call of label_to_slot_id on the label of a cell one column past the end
\* of a row of a shelf, and on an id that was never handed out
decode_missing(sid, form) ==
    /\ \E s \in slots : s.id = sid
    /\ \E s \in {slot_id_to_tuple(slots, sid)} :
          \E text \in {label_form(form, nextSlotId, s[1], s[2],
                                  max_col_row(slots, s[1], s[2]) + 1)} :
             last' = Last("label_to_slot_id", <<0, form, text>>,
                          label_to_slot_id(slots, text) = 0)
    /\ UNCHANGED <<shelves, slots, nextSlotId, sections, patients, nextPatientId,
                   prescriptions, nextPrescId, ui,
                   blink_groups, blink_sessions, blink_call, scanner>>

NextCodec ==
    \/ \E n \in CodecNames, c \in ColCounts : add_shelf(n, 1, c)
    \/ \E sh \in shelves, n \in CodecNames :
          apply_edit(sh.name, n, sh.rows_count, sh.cols_count)
    \/ \E sid \in 1..MaxSlotId, f \in LabelForms : decode(sid, f)
    \/ \E sid \in 1..MaxSlotId, f \in LabelForms : decode_missing(sid, f)

SpecCodec == Init /\ [][NextCodec]_vars

\* ------------------------------------------------------------- family bins
\* A household in a configured pharmacy: one patient with an address and one
\* prescription placed on a slot; the occupancy flags are any the ledger can
\* have drifted to.
InitFamily ==
    /\ shelves = ConfiguredShelves
    /\ sections = ConfiguredSections
    /\ slots \in AnyOccupancy(ConfiguredSlots)
    /\ nextSlotId = 5
    /\ patients = {[id |-> 1, name |-> <<"j"," ","a","l">>, address |-> <<"x">>]}
    /\ nextPatientId = 2
    /\ \E b \in BasketInputs, sid \in {1, 2, 4} :
          prescriptions = {[id |-> 1, patient_id |-> 1, basket_size |-> b, slot_id |-> sid]}
    /\ nextPrescId = 2
    /\ ui = NoUi
    /\ last = Last("init", <<>>, TRUE)
    /\ Quiet

\* adding a prescription and the popups that follow
NextFamily ==
    \/ \E a \in AddressInputs, b \in BasketInputs : add_prescription(1, a, b)
    \/ \E sid \in {s.id : s \in slots} : bin_with_selected(sid)
    \/ skip_family
    \/ accept
    \/ deny
    \/ \E s \in ShelfNames, row \in ManualRows, col \in ManualCols : assign(s, row, col)
    \/ close_popup

SpecFamily == InitFamily /\ [][NextFamily]_vars

\* ------------------------------------------------- the scan, step by step
\* The allocator functions as the loops they run: one step per iteration of
\* the row loop and of the column loop of find_slot_in_section.

ScanIdle == [pc |-> "idle"]

\* the scanner at the head of the row loop of find_slot_in_section
RowLoop(entry, letter, basket, phase, s, over) ==
    [pc |-> "row", entry |-> entry, letter |-> letter, basket |-> basket,
     phase |-> phase, bound |-> s, rows |-> rows_range(s[2], s[4]), i |-> 1,
     c |-> 0, c_end |-> 0, res |-> None, over |-> over]

\* the scanner holding the value the entry function returns
Returned(sc, res) == [sc EXCEPT !.pc = "done", !.res = res]

\* a section search came back empty: the overflow section is tried once by
\* find_next_available_slot_with_overflow, every other caller returns None.
\* sc.over is the row get_overflow_section() reads: no statement of a scan
\* writes the sections table, so the row is the one the call began with
scan_none(sc) ==
    IF sc.entry = "find_next_available_slot_with_overflow" /\ sc.phase = "primary"
    THEN IF sc.over = None
         THEN Returned(sc, None)
         ELSE RowLoop(sc.entry, sc.letter, sc.basket, "overflow", sc.over, sc.over)
    ELSE Returned(sc, None)

\* find_next_available_slot_primary / _with_overflow is called, once on each
\* snapshot of the tables
scan_call(entry, letter, basket_size) ==
    /\ scanner.pc = "idle"
    /\ last.op = "init"
    /\ \E s \in {get_letter_section(sections, letter)},
          over \in {get_overflow_section(sections)} :
          scanner' = IF s = None
                     THEN scan_none(
                             [pc |-> "row", entry |-> entry, letter |-> letter,
                              basket |-> basket_size, phase |-> "primary", bound |-> None,
                              rows |-> <<>>, i |-> 1, c |-> 0, c_end |-> 0, res |-> None,
                              over |-> over])
                     ELSE RowLoop(entry, letter, basket_size, "primary", s, over)
    /\ last' = Last("call", <<entry, letter, basket_size>>, TRUE)
    /\ UNCHANGED <<shelves, slots, nextSlotId, sections, patients, nextPatientId,
                   prescriptions, nextPrescId, ui, blink_groups, blink_sessions,
                   blink_call>>

\* find_slot_in_section is called with a bound of its own
scan_call_section(s, basket_size) ==
    /\ scanner.pc = "idle"
    /\ last.op = "init"
    /\ scanner' = RowLoop("find_slot_in_section", "", basket_size, "section", s, None)
    /\ last' = Last("call", <<"find_slot_in_section", s, basket_size>>, TRUE)
    /\ UNCHANGED <<shelves, slots, nextSlotId, sections, patients, nextPatientId,
                   prescriptions, nextPrescId, ui, blink_groups, blink_sessions,
                   blink_call>>

\* for r in rows: the column range of the row, or the end of the loop
scan_row ==
    /\ scanner.pc = "row"
    /\ scanner' =
          IF scanner.i > Len(scanner.rows) THEN scan_none(scanner)
          ELSE IF max_col_row(slots, scanner.bound[1], scanner.rows[scanner.i]) = 0
          THEN [scanner EXCEPT !.i = scanner.i + 1]
          ELSE [scanner EXCEPT
                  !.pc = "col",
                  !.c = col_start(scanner.rows[scanner.i], scanner.bound[2], scanner.bound[3]),
                  !.c_end = Min2(IF scanner.rows[scanner.i] = scanner.bound[4]
                                 THEN scanner.bound[5] ELSE SafeCap,
                                 max_col_row(slots, scanner.bound[1],
                                             scanner.rows[scanner.i]))]
    /\ UNCHANGED <<shelves, slots, nextSlotId, sections, patients, nextPatientId,
                   prescriptions, nextPrescId, ui, last, blink_groups, blink_sessions,
                   blink_call>>

\* the slot found at column c is written as occupied by the scan itself
scan_col_slots_reserving(S, row1) ==
    IF row1 # None /\ row1[2] = 0 THEN mark_slots_occupied(S, {row1[1]}) ELSE S

\* the scan only reads the slots table
scan_col_slots(S, row1) == S

\* for c in range(c_start, c_end + 1): one column, or the end of the row
scan_col ==
    /\ scanner.pc = "col"
    /\ \E r \in {scanner.rows[scanner.i]} :
       \E row1 \in {get_slot_by_position(slots, scanner.bound[1], r, scanner.c)},
          row2 \in {get_slot_by_position(slots, scanner.bound[1], r, scanner.c + 1)} :
          /\ scanner' =
                IF scanner.c > scanner.c_end
                THEN [scanner EXCEPT !.pc = "row", !.i = scanner.i + 1]
                ELSE IF row1 = None THEN [scanner EXCEPT !.c = scanner.c + 1]
                ELSE IF row1[2] # 0 THEN [scanner EXCEPT !.c = scanner.c + 1]
                ELSE IF scanner.basket = "large"
                THEN IF pair_free(row2)
                     THEN Returned(scanner, << <<row1[1], row2[1]>>, scanner.bound[1] >>)
                     ELSE [scanner EXCEPT !.c = scanner.c + 1]
                ELSE Returned(scanner, << <<row1[1]>>, scanner.bound[1] >>)
          /\ slots' = IF scanner.c > scanner.c_end THEN slots
                      ELSE scan_col_slots(slots, row1)
    /\ UNCHANGED <<shelves, nextSlotId, sections, patients, nextPatientId,
                   prescriptions, nextPrescId, ui, last, blink_groups, blink_sessions,
                   blink_call>>

\* the entry function returns to its caller
scan_return ==
    /\ scanner.pc = "done"
    /\ scanner' = ScanIdle
    /\ last' = Last(scanner.entry, <<scanner.letter, scanner.basket, scanner.res>>,
                    scanner.res # None)
    /\ UNCHANGED <<shelves, slots, nextSlotId, sections, patients, nextPatientId,
                   prescriptions, nextPrescId, ui, blink_groups, blink_sessions,
                   blink_call>>

\* bounds handed to find_slot_in_section on shelf F (2 x 2): the whole shelf,
\* a span from the middle of a row, a start row below the end row, a span
\* past the rows and columns of the shelf, and a shelf without slots
StepBounds ==
    { <<<<"F">>, "A", 1, "B", 2>>,
      <<<<"F">>, "A", 2, "B", 1>>,
      <<<<"F">>, "B", 1, "A", 2>>,
      <<<<"F">>, "A", 1, "C", 9>>,
      <<<<"F">>, "C", 3, "D", 4>>,
      <<<<"X">>, "A", 1, "B", 2>> }

StepEntries == {"find_next_available_slot_primary",
                "find_next_available_slot_with_overflow"}

scan_step == scan_row \/ scan_col \/ scan_return

NextScan ==
    \/ \E e \in StepEntries, L \in {"A", "B"}, b \in BasketInputs : scan_call(e, L, b)
    \/ \E s \in StepBounds, b \in BasketInputs : scan_call_section(s, b)
    \/ scan_row
    \/ scan_col
    \/ scan_return

SpecScan == InitOverflow /\ [][NextScan]_vars

\* a call that has begun runs on: the loops are not interrupted
SpecScanFair == SpecScan /\ WF_vars(scan_step)

\* ------------------------------------ auto-assign, from any drifted ledger
\* Any occupancy flags and any prescriptions over the configured layout with
\* shelf F of two rows; the patient files under A (section F A1..A2, Overflow
\* L A1..A1).
InitDrift ==
    /\ shelves = TwoRowShelves
    /\ sections = ConfiguredSections
    /\ slots \in AnyOccupancy(TwoRowSlots)
    /\ nextSlotId = 6
    /\ patients = {[id |-> 1, name |-> <<"a","l">>, address |-> <<>>]}
    /\ nextPatientId = 2
    /\ prescriptions \in AnyPrescriptions
    /\ nextPrescId = MaxPresc + 1
    /\ ui = NoUi
    /\ last = Last("init", <<>>, TRUE)
    /\ Quiet

\* a call of auto_assign_for_patient: the repair, then the search; the ids
\* flagged occupied when the call began are recorded with its result
auto_assign(pid, basket_size) ==
    /\ ui.kind = "none"
    /\ \E p \in patients : p.id = pid
    /\ slots' = auto_assign_slots(slots, prescriptions)
    /\ \E letter \in {get_patient_letter(patients, pid)} :
          \E res \in {auto_assign_for_patient(slots', sections, letter, basket_size)} :
             last' = Last("auto_assign_for_patient",
                          <<pid, basket_size, res,
                            {s.id : s \in {t \in slots : t.occupied = 1}}>>,
                          res # None)
    /\ UNCHANGED <<shelves, nextSlotId, sections, patients, nextPatientId,
                   prescriptions, nextPrescId, ui,
                   blink_groups, blink_sessions, blink_call, scanner>>

NextDrift == \E b \in BasketInputs : auto_assign(1, b)

SpecDrift == InitDrift /\ [][NextDrift]_vars

\* --------------------------------- the ledger beside the shelf settings
\* The configured pharmacy: prescriptions are added, binned with the
\* household's, placed and deleted in the patient window while the letter
\* sections are blanked and shelves deleted in the shelf settings.
NextSettings ==
    \/ \E n \in NameInputs, a \in AddressInputs : add_patient(n, a)
    \/ \E pid \in 1..MaxPatients, a \in AddressInputs, b \in BasketInputs :
          add_prescription(pid, a, b)
    \/ \E sid \in {s.id : s \in slots} : bin_with_selected(sid)
    \/ skip_family
    \/ accept
    \/ close_popup
    \/ \E pid \in 1..MaxPatients :
          \E sel \in SUBSET {p.id : p \in {q \in prescriptions : q.patient_id = pid}} :
             delete_selected_prescriptions(sel)
    \/ \E L \in EditableLetters : save_all_letters(L, <<>>, <<>>, <<>>)
    \/ \E n \in ShelfNames : delete_shelf(n)

SpecSettings == InitLedger /\ [][NextSettings]_vars

\* ------------------------------------------- the shelf settings, any name
\* The shelf form with the new-name field left empty, filled with blanks
\* only, or filled with a name in lower case; a shelf whose name was blanked
\* stays in the table under the empty name.
AddressNames == { <<>>, <<" ">>, <<"f">> }

NextAddress ==
    \/ \E n \in AddressNames, r \in RowCounts, c \in ColCounts : add_shelf(n, r, c)
    \/ \E sh \in shelves, n \in AddressNames, r \in RowCounts, c \in ColCounts :
          apply_edit(sh.name, n, r, c)
    \/ \E sh \in shelves : delete_shelf(sh.name)

SpecAddress == (Init \/ InitInUse) /\ [][NextAddress]_vars

\* ------------------------------------------------------------ LED blinking
\* blink_groups: key -> the session registered under it (0: no entry).
\* blink_sessions: one record per start_blink that got as far as the thread:
\*   key    the group key the worker thread was given
\*   stop   the session's stop event
\*   pause  the session's pause event
\*   pc     where the worker thread is: "start" (not yet at its first
\*          statement), "loop" (at the while test), "nap" (paused sleep),
\*          "on", "off" (the two halves of a blink), "done" (returned),
\*          "crashed" (ended by KeyError)
\*   ctrl   the session whose events the worker reads (0: none yet)
\* blink_call: the key start_blink is registering, between its stop_blink
\* and its registration (0: the main thread is not inside start_blink).
BlinkKeys == 1..MaxBlinkKeys

\* the lists of slot ids handed to start_blink
BlinkSlotInputs == {<<>>} \cup {<<k>> : k \in BlinkKeys} \cup {<<1, 2>>}

NewSession(key) == [key |-> key, stop |-> FALSE, pause |-> FALSE, pc |-> "start", ctrl |-> 0]

\* ctrl = _blink_groups.pop(key, None); if ctrl: ctrl["stop"].set()
stop_blink_sessions(Ss, G, key) ==
    IF G[key] = 0 THEN Ss ELSE [Ss EXCEPT ![G[key]].stop = TRUE]

stop_blink_groups(G, key) == [G EXCEPT ![key] = 0]

\* start_blink up to the creation of the events: no slots, or the
\* stop_blink of the key
start_blink_begin(slots_in) ==
    /\ blink_call = 0
    /\ Len(blink_sessions) < MaxSessions
    /\ IF slots_in = <<>>
       THEN /\ last' = Last("start_blink", <<0, 0>>, FALSE)
            /\ UNCHANGED <<blink_groups, blink_sessions, blink_call>>
       ELSE /\ blink_sessions' = stop_blink_sessions(blink_sessions, blink_groups, slots_in[1])
            /\ blink_groups' = stop_blink_groups(blink_groups, slots_in[1])
            /\ blink_call' = slots_in[1]
            /\ last' = Last("start_blink_begin", <<slots_in[1], blink_groups[slots_in[1]]>>, TRUE)
    /\ UNCHANGED <<shelves, slots, nextSlotId, sections, patients, nextPatientId,
                   prescriptions, nextPrescId, ui, scanner>>

\* start_blink from the registration on: the entry is written, the thread
\* started, the key returned
start_blink_register ==
    /\ blink_call # 0
    /\ blink_sessions' = Append(blink_sessions, NewSession(blink_call))
    /\ blink_groups' = [blink_groups EXCEPT ![blink_call] = Len(blink_sessions) + 1]
    /\ blink_call' = 0
    /\ last' = Last("start_blink", <<blink_call, Len(blink_sessions) + 1>>, TRUE)
    /\ UNCHANGED <<shelves, slots, nextSlotId, sections, patients, nextPatientId,
                   prescriptions, nextPrescId, ui, scanner>>

\* stop_blink(key) from a popup's Done button; the session it stopped (0 for
\* a key without an entry) is recorded
stop_blink(key) ==
    /\ blink_call = 0
    /\ blink_sessions' = stop_blink_sessions(blink_sessions, blink_groups, key)
    /\ blink_groups' = stop_blink_groups(blink_groups, key)
    /\ last' = Last("stop_blink", <<key, blink_groups[key]>>, blink_groups[key] # 0)
    /\ UNCHANGED <<shelves, slots, nextSlotId, sections, patients, nextPatientId,
                   prescriptions, nextPrescId, ui, blink_call, scanner>>

pause_toggle(group_key) ==
    /\ blink_call = 0
    /\ blink_sessions' =
          IF blink_groups[group_key] = 0 THEN blink_sessions
          ELSE [blink_sessions EXCEPT ![blink_groups[group_key]].pause = ~@]
    /\ last' = Last("pause_toggle", <<group_key, blink_groups[group_key]>>,
                    blink_groups[group_key] # 0)
    /\ UNCHANGED <<shelves, slots, nextSlotId, sections, patients, nextPatientId,
                   prescriptions, nextPrescId, ui, blink_groups, blink_call, scanner>>

\* one step of the worker thread of session i: its first statement reads the
\* registry under its key as the registry is then; the loop reads the events
\* of the entry it got
blink_worker_pc(Ss, G, w) ==
    IF w.pc = "start"
    THEN IF G[w.key] = 0 THEN [w EXCEPT !.pc = "crashed"]
         ELSE [w EXCEPT !.pc = "loop", !.ctrl = G[w.key]]
    ELSE IF w.pc = "loop"
    THEN IF Ss[w.ctrl].stop THEN [w EXCEPT !.pc = "done"]
         ELSE IF Ss[w.ctrl].pause THEN [w EXCEPT !.pc = "nap"]
         ELSE [w EXCEPT !.pc = "on"]
    ELSE IF w.pc = "on" THEN [w EXCEPT !.pc = "off"]
    ELSE [w EXCEPT !.pc = "loop"]

blink_worker(i) ==
    /\ i \in DOMAIN blink_sessions
    /\ blink_sessions[i].pc \in {"start", "loop", "nap", "on", "off"}
    /\ blink_sessions' =
          [blink_sessions EXCEPT ![i] = blink_worker_pc(blink_sessions, blink_groups, @)]
    /\ UNCHANGED <<shelves, slots, nextSlotId, sections, patients, nextPatientId,
                   prescriptions, nextPrescId, ui, last, blink_groups, blink_call, scanner>>

NextBlink ==
    \/ \E s \in BlinkSlotInputs : start_blink_begin(s)
    \/ start_blink_register
    \/ \E k \in BlinkKeys : stop_blink(k)
    \/ \E k \in BlinkKeys : pause_toggle(k)
    \/ \E i \in 1..MaxSessions : blink_worker(i)

SpecBlink == InitLedger /\ [][NextBlink]_vars

\* every worker thread that can take a step is scheduled again
SpecBlinkFair == SpecBlink /\ \A i \in 1..MaxSessions : WF_vars(blink_worker(i))

\* ===================================================================== claims
\* What the ledger is specified to hold: the ids of the slots referenced by a
\* live prescription, together with the column + 1 neighbour (same shelf, same
\* row) of every slot referenced by a large-basket prescription.
Held(S, P) ==
    {s.id : s \in {t \in S : \E p \in P :
        \/ p.slot_id = t.id
        \/ /\ p.basket_size = "large"
           /\ \E u \in S : /\ u.id = p.slot_id
                           /\ u.shelf = t.shelf
                           /\ u.row = t.row
                           /\ t.col = u.col + 1}}

OccupiedIds(S) == {s.id : s \in {t \in S : t.occupied = 1}}

\* C1: whenever no dialog is open, the set of slots marked occupied equals the
\* set of slots referenced by live prescriptions, large-basket partners
\* included.
C1_LedgerInvariant == ui.kind = "none" => OccupiedIds(slots) = Held(slots, prescriptions)

\* C2: after repair_slot_occupancy a slot is occupied exactly when a
\* prescription references it or it is the column + 1 neighbour of the slot of
\* a large-basket prescription; every other slot is free.
C2_RepairPostcondition ==
    last.op = "repair_slot_occupancy" =>
        \A s \in slots : (s.occupied = 1) <=> (s.id \in Held(slots, prescriptions))

C2_Witness ==
    /\ last.op = "repair_slot_occupancy"
    /\ \E p \in prescriptions : \E s, t \in slots :
          /\ p.basket_size = "large"
          /\ p.slot_id = s.id
          /\ t.shelf = s.shelf /\ t.row = s.row /\ t.col = s.col + 1
          /\ s.occupied = 1 /\ t.occupied = 1
    /\ \E s \in slots : s.occupied = 0

SlotIdentity(S) == {[id |-> s.id, shelf |-> s.shelf, row |-> s.row, col |-> s.col] : s \in S}

\* C3: repair_slot_occupancy changes nothing but occupied flags (prescriptions,
\* shelf dimensions, sections, patients and slot identities are untouched), and
\* a second run right after a first leaves the slots table as the first left
\* it.
C3_RepairIdempotent ==
    [][last'.op = "repair_slot_occupancy" =>
         /\ prescriptions' = prescriptions
         /\ shelves' = shelves
         /\ sections' = sections
         /\ patients' = patients
         /\ SlotIdentity(slots') = SlotIdentity(slots)
         /\ (last.op = "repair_slot_occupancy" => slots' = slots)]_vars

C3_Witness ==
    /\ last.op = "repair_slot_occupancy"
    /\ last.a = <<"again">>
    /\ \E s \in slots : s.occupied = 1
    /\ \E s \in slots : s.occupied = 0
    /\ prescriptions # {}

\* The slots of a shelf inside a section bound: rows between the bound rows,
\* the start column applying on the first row and the end column on the last.
InBound(s, shelf_name, start_row, start_col, end_row, end_col) ==
    /\ s.shelf = shelf_name
    /\ ord(s.row) >= ord(start_row)
    /\ ord(s.row) <= ord(end_row)
    /\ (s.row = start_row => s.col >= start_col)
    /\ (s.row = end_row => s.col <= end_col)

Partners(S, s) == {t \in S : t.shelf = s.shelf /\ t.row = s.row /\ t.col = s.col + 1}

Fits(S, shelf_name, start_row, start_col, end_row, end_col, basket_size) ==
    {s \in S :
        /\ InBound(s, shelf_name, start_row, start_col, end_row, end_col)
        /\ s.occupied = 0
        /\ (basket_size = "large" => \E t \in Partners(S, s) : t.occupied = 0)}

Earlier(s, t) == ord(s.row) < ord(t.row) \/ (s.row = t.row /\ s.col <= t.col)

\* the fit that comes first in row-major order, in the shape the search returns
FirstFit(S, shelf_name, start_row, start_col, end_row, end_col, basket_size) ==
    LET fits == Fits(S, shelf_name, start_row, start_col, end_row, end_col, basket_size)
    IN IF fits = {} THEN None
       ELSE LET s == CHOOSE x \in fits : \A y \in fits : Earlier(x, y)
            IN IF basket_size = "large"
               THEN << <<s.id, (CHOOSE t \in Partners(S, s) : TRUE).id>>, shelf_name >>
               ELSE << <<s.id>>, shelf_name >>

\* C4: find_slot_in_section returns the first fitting position in row-major
\* order within the bound (start column on the first row only, end column on
\* the last row only), and nothing when no position fits.
C4_FirstFit ==
    last.op = "find_slot_in_section" =>
        last.a[7] = FirstFit(slots, last.a[1], last.a[2], last.a[3], last.a[4],
                             last.a[5], last.a[6])

C4_Witness ==
    /\ last.op = "find_slot_in_section"
    /\ last.a[7] # None
    /\ last.a[2] # last.a[4]
    /\ \E s \in slots :
          /\ s.id = last.a[7][1][1]
          /\ s.row # last.a[2]
          /\ s.col < last.a[3]
    /\ \E s \in slots :
          /\ InBound(s, last.a[1], last.a[2], last.a[3], last.a[4], last.a[5])
          /\ s.occupied = 1

\* C5: a large-basket result of find_slot_in_section is two slots of the same
\* shelf and row in adjacent columns, primary at c and partner at c + 1, both
\* free in the snapshot searched.
C5_LargeAdjacent ==
    (last.op = "find_slot_in_section" /\ last.a[6] = "large" /\ last.a[7] # None) =>
        /\ Len(last.a[7][1]) = 2
        /\ \E s, t \in slots :
              /\ s.id = last.a[7][1][1]
              /\ t.id = last.a[7][1][2]
              /\ s.shelf = last.a[1] /\ t.shelf = last.a[1]
              /\ t.row = s.row
              /\ t.col = s.col + 1
              /\ s.occupied = 0 /\ t.occupied = 0

C5_Witness ==
    /\ last.op = "find_slot_in_section"
    /\ last.a[6] = "large"
    /\ last.a[7] # None
    /\ \E s \in slots : s.id = last.a[7][1][1] /\ s.row # last.a[2]
    /\ \E s, t \in slots :
          /\ InBound(s, last.a[1], last.a[2], last.a[3], last.a[4], last.a[5])
          /\ s.occupied = 0
          /\ t \in Partners(slots, s)
          /\ t.occupied = 1

\* the first fit of a section, nothing when the section is not configured
SectionFit(S, sec, letter, basket_size) ==
    LET info == get_letter_section(sec, letter)
    IN IF info = None THEN None
       ELSE FirstFit(S, info[1], info[2], info[3], info[4], info[5], basket_size)

\* C6: the search with overflow returns the letter section's fit when there is
\* one, otherwise the Overflow section's fit, and nothing when neither section
\* yields a fit.
C6_OverflowFallback ==
    last.op = "find_next_available_slot_with_overflow" =>
        LET prim == SectionFit(slots, sections, last.a[1], last.a[2])
            ov == SectionFit(slots, sections, "Overflow", last.a[2])
        IN last.a[3] = IF prim # None THEN prim ELSE ov

C6_Witness ==
    /\ last.op = "find_next_available_slot_with_overflow"
    /\ get_letter_section(sections, last.a[1]) # None
    /\ SectionFit(slots, sections, last.a[1], last.a[2]) = None
    /\ last.a[3] # None
    /\ last.a[3][2] = <<"L">>

\* C7: when two live prescriptions reference the same slot, deleting one of
\* them leaves the slot occupied as long as the other survives.
C7_SiblingProtected ==
    [][\A p, q \in prescriptions :
          (/\ p.id # q.id
           /\ p.slot_id # 0
           /\ p.slot_id = q.slot_id
           /\ p \notin prescriptions'
           /\ q \in prescriptions'
           /\ \E s \in slots : s.id = p.slot_id /\ s.occupied = 1)
          => \E s \in slots' : s.id = p.slot_id /\ s.occupied = 1]_vars

ShelfSlots(S, name) == {s \in S : s.shelf = name}

ShelfRow(Sh, name) == CHOOSE sh \in Sh : sh.name = name

\* the free rows x cols grid of a shelf, one slot per position
IsFreshGrid(G, name, rows_count, cols_count) ==
    /\ \A s \in G : /\ s.shelf = name
                    /\ s.occupied = 0
                    /\ ord(s.row) \in 1..rows_count
                    /\ s.col \in 1..cols_count
    /\ \A i \in 1..rows_count, j \in 1..cols_count :
          Cardinality({s \in G : s.row = chr(i) /\ s.col = j}) = 1
    /\ Cardinality(G) = rows_count * cols_count

\* C8: populating a shelf without slots creates exactly its rows x cols grid of
\* free slots; populating a shelf that already has a slot adds, removes and
\* modifies nothing, whatever the rows and columns passed.
C8_PopulateOnce ==
    [][/\ (last'.op = "add_shelf" =>
             LET name == last'.a[1]
                 sh == ShelfRow(shelves', name)
             IN /\ slots \subseteq slots'
                /\ {s.id : s \in slots' \ slots} \cap {s.id : s \in slots} = {}
                /\ IF ShelfSlots(slots, name) = {}
                   THEN IsFreshGrid(slots' \ slots, name, sh.rows_count, sh.cols_count)
                   ELSE slots' = slots)
       /\ ((last'.op = "apply_edit" /\ last'.ok) =>
             LET current == last'.a[1]
                 new_name == last'.a[2]
                 sh == ShelfRow(shelves', new_name)
                 before == rename_slots(slots, current, new_name)
             IN /\ before \subseteq slots'
                /\ {s.id : s \in slots' \ before} \cap {s.id : s \in before} = {}
                /\ IF ShelfSlots(before, new_name) = {}
                   THEN IsFreshGrid(slots' \ before, new_name, sh.rows_count, sh.cols_count)
                   ELSE slots' = before)]_vars

C8_Witness ==
    /\ last.op = "apply_edit"
    /\ last.ok
    /\ LET sh == ShelfRow(shelves, last.a[2])
       IN /\ ShelfSlots(slots, sh.name) # {}
          /\ Cardinality(ShelfSlots(slots, sh.name)) < sh.rows_count * sh.cols_count
    /\ \E sh \in shelves :
          /\ sh.name # last.a[2]
          /\ sh.rows_count * sh.cols_count > 1
          /\ IsFreshGrid(ShelfSlots(slots, sh.name), sh.name, sh.rows_count, sh.cols_count)

\* C9: after a shelf is resized to dimensions at least as large as before,
\* every position of the new rows x cols grid has a slot, the added ones free.
C9_ResizeGrows ==
    [][(/\ last'.op = "apply_edit"
        /\ last'.ok
        /\ ShelfSlots(slots, last'.a[1]) # {}
        /\ ShelfRow(shelves', last'.a[2]).rows_count >= ShelfRow(shelves, last'.a[1]).rows_count
        /\ ShelfRow(shelves', last'.a[2]).cols_count >= ShelfRow(shelves, last'.a[1]).cols_count)
       => LET sh == ShelfRow(shelves', last'.a[2])
          IN \A i \in 1..sh.rows_count, j \in 1..sh.cols_count :
                LET hit == get_slot_by_position(slots', sh.name, chr(i), j)
                IN /\ hit # None
                   /\ (get_slot_by_position(slots, last'.a[1], chr(i), j) = None
                         => hit[2] = 0)]_vars

\* C10: a resize never deletes: every slot that existed before apply_edit is
\* still there afterwards with its id, position and occupied flag, and the
\* prescriptions are untouched, also when the new dimensions are smaller.
C10_ResizeKeepsSlots ==
    [][(last'.op = "apply_edit" /\ last'.ok) =>
         /\ \A s \in slots : \E t \in slots' :
               /\ t.id = s.id
               /\ t.occupied = s.occupied
               /\ t.row = s.row
               /\ t.col = s.col
               /\ t.shelf = IF s.shelf = last'.a[1] THEN last'.a[2] ELSE s.shelf
         /\ prescriptions' = prescriptions]_vars

C10_Witness ==
    /\ last.op = "apply_edit"
    /\ last.ok
    /\ LET sh == ShelfRow(shelves, last.a[2])
       IN /\ Cardinality(ShelfSlots(slots, sh.name)) > sh.rows_count * sh.cols_count
          /\ \E s \in ShelfSlots(slots, sh.name), p \in prescriptions :
                /\ p.slot_id = s.id
                /\ s.occupied = 1
                /\ (ord(s.row) > sh.rows_count \/ s.col > sh.cols_count)

\* C11: delete_shelf is rejected, with shelves, slots and sections unchanged,
\* when a slot of the shelf is occupied or a section row references the
\* shelf; otherwise it removes the slots of the shelf and the shelf record
\* and changes nothing else.
C11_DeleteShelfGuard ==
    [][last'.op = "delete_shelf" =>
         LET name == last'.a[1]
         IN IF \/ \E s \in slots : s.shelf = name /\ s.occupied = 1
               \/ \E L \in DOMAIN sections : sections[L].shelf = name
            THEN /\ ~last'.ok
                 /\ shelves' = shelves /\ slots' = slots /\ sections' = sections
            ELSE /\ last'.ok
                 /\ slots' = {s \in slots : s.shelf # name}
                 /\ shelves' = {sh \in shelves : sh.name # name}
                 /\ sections' = sections
                 /\ prescriptions' = prescriptions
                 /\ patients' = patients
                 /\ nextSlotId' = nextSlotId]_vars

C11_Witness ==
    /\ last.op = "delete_shelf"
    /\ ~last.ok
    /\ ShelfSlots(slots, last.a[1]) # {}
    /\ \A s \in ShelfSlots(slots, last.a[1]) : s.occupied = 0
    /\ \E sh \in shelves : sh.name # last.a[1] /\ \E s \in ShelfSlots(slots, sh.name) : s.occupied = 1

\* a bound as the form accepts it: a row letter A-Z, then a column >= 1
WellFormedBound(text) ==
    /\ Len(text) >= 2
    /\ \E i \in DOMAIN Alphabet : Alphabet[i] = text[1]
    /\ int(Tail(text)) # None
    /\ int(Tail(text))[1] >= 1

\* the row of the form as typed, trimmed and in upper case
TypedRow(a) == [shelf |-> upper(strip(a[2])),
                lower_bound |-> upper(strip(a[3])),
                upper_bound |-> upper(strip(a[4]))]

RowValid(Sh, r) ==
    /\ (r.shelf = <<>> \/ \E sh \in Sh : sh.name = r.shelf)
    /\ (r.lower_bound = <<>> \/ WellFormedBound(r.lower_bound))
    /\ (r.upper_bound = <<>> \/ WellFormedBound(r.upper_bound))

SavedOrRejected(L, r, valid) ==
    /\ last'.ok = valid
    /\ sections'[L] = IF valid THEN r ELSE sections[L]
    /\ (valid /\ r.shelf = <<>> => get_letter_section(sections', L) = None)
    /\ \A K \in DOMAIN sections : K # L => sections'[K] = sections[K]

\* C12: a saved section row is rejected, the letter's stored row staying as
\* it was, when its shelf is non-blank and unknown or one of its bounds is
\* non-empty and not a row letter with a column >= 1; otherwise the row is
\* stored as typed (trimmed, upper case), and with a blank shelf the section
\* is unconfigured.  The rows of the other letters stay as they were.
C12_SectionValidation ==
    [][last'.op = "save_all_letters" =>
         SavedOrRejected(last'.a[1], TypedRow(last'.a),
                         RowValid(shelves, TypedRow(last'.a)))]_vars

C12_Witness ==
    /\ last.op = "save_all_letters"
    /\ ~last.ok
    /\ \E sh \in shelves : sh.name = upper(strip(last.a[2]))
    /\ upper(strip(last.a[3])) = <<"A","1">>
    /\ last.a[4] # <<>>
    /\ get_letter_section(sections, last.a[1]) # None

\* C14: the registry always holds exactly 27 section rows, one per letter
\* 'A'..'Z' and one for "Overflow", through section saves, shelf renames and
\* shelf deletions.
C14_RegistryCardinality ==
    /\ DOMAIN sections = {Alphabet[i] : i \in 1..26} \cup {"Overflow"}
    /\ Cardinality(DOMAIN sections) = 27

C14_Witness ==
    /\ last.op = "apply_edit"
    /\ last.ok
    /\ last.a[1] # last.a[2]
    /\ \E L \in DOMAIN sections : sections[L].shelf = last.a[2]
    /\ \E L \in DOMAIN sections : sections[L].shelf = <<>> /\ sections[L].lower_bound # <<>>

\* a section row that resolves: a shelf and two well-formed bounds
IsConfigured(r) ==
    /\ r.shelf # <<>>
    /\ WellFormedBound(upper(strip(r.lower_bound)))
    /\ WellFormedBound(upper(strip(r.upper_bound)))

\* C13: get_letter_section gives nothing exactly when the section's shelf is
\* blank or one of its bounds does not parse, and then the primary search
\* returns nothing for either basket size, however many slots are free.
C13_UnconfiguredNoCapacity ==
    last.op = "find_next_available_slot_primary" =>
        /\ (get_letter_section(sections, last.a[1]) = None)
              <=> ~IsConfigured(sections[last.a[1]])
        /\ (~IsConfigured(sections[last.a[1]]) => last.a[3] = None)

C13_Witness ==
    /\ last.op = "find_next_available_slot_primary"
    /\ sections[last.a[1]].shelf # <<>>
    /\ sections[last.a[1]].lower_bound # <<>>
    /\ sections[last.a[1]].upper_bound = <<>>
    /\ \A s \in ShelfSlots(slots, sections[last.a[1]].shelf) : s.occupied = 0
    /\ last.a[3] = None

\* the cells a placement on slot sid needs for basket b; 0 stands for a cell
\* that does not exist
CellsNeeded(S, sid, b) ==
    {sid} \cup (IF basket_of(b) = "large" THEN {next_col_partner_slot_id(S, sid)} ELSE {})

\* C15: a manual placement (the assign button of the manual popup, the location
\* field of the edit form) that is refused changes no occupancy flag and no
\* slot reference; one that changes the slot reference of the prescription
\* found the target, and for a large basket its column + 1 neighbour, existing
\* and free, and leaves them occupied.
C15_ManualChecks ==
    [][last'.op \in {"assign", "save_edit"} =>
          /\ (~last'.ok => slots' = slots /\ prescriptions' = prescriptions)
          /\ \A p \in prescriptions, q \in prescriptions' :
                (p.id = ui.presc /\ q.id = p.id /\ q.slot_id # p.slot_id) =>
                   /\ 0 \notin CellsNeeded(slots, q.slot_id, q.basket_size)
                   /\ \A c \in CellsNeeded(slots, q.slot_id, q.basket_size) :
                         /\ \E s \in slots : s.id = c /\ s.occupied = 0
                         /\ \E s \in slots' : s.id = c /\ s.occupied = 1]_vars

\* the positions of a name that hold a non-blank character
Inked(name) == {i \in DOMAIN name : name[i] # " "}

\* where the last whitespace-separated token of a name starts
LastTokenStart(name) ==
    SetMin({b \in Inked(name) : \A i \in b..SetMax(Inked(name)) : i \in Inked(name)})

\* the letter a name is specified to file under
FilingLetter(name) ==
    IF Inked(name) = {} THEN "A" ELSE upper_char(name[LastTokenStart(name)])

BoundRow(text) == upper(strip(text))[1]
BoundCol(text) == digits_value(Tail(upper(strip(text))))

\* what the section row r is specified to contain of slot s
InSection(r, s) ==
    /\ s.shelf = r.shelf
    /\ ord(BoundRow(r.lower_bound)) <= ord(s.row)
    /\ ord(s.row) <= ord(BoundRow(r.upper_bound))
    /\ (s.row = BoundRow(r.lower_bound) => s.col >= BoundCol(r.lower_bound))
    /\ (s.row = BoundRow(r.upper_bound) => s.col <= BoundCol(r.upper_bound))

\* the cells of shelf F the section "rows B-D, columns 5-15" holds and excludes
ExampleIn == {<<"B", 5>>, <<"D", 15>>, <<"C", 1>>}
ExampleOut == {<<"B", 4>>, <<"D", 16>>}

ExampleSection == SectionRow(<<"F">>, <<"B","5">>, <<"D","1","5">>)

\* C17: is_slot_in_letter_section is true for "Overflow" and for a letter whose
\* section is unconfigured; otherwise it is true exactly when the slot is on
\* the section's shelf, its row lies between the start and end rows, its
\* column is at least the start column on the start row and at most the end
\* column on the end row. With rows B-D, columns 5-15 on F: F-B5, F-D15 and
\* F-C1 are in, F-B4 and F-D16 are out.
C17_SectionMembership ==
    last.op = "is_slot_in_letter_section" =>
        \A s \in slots : s.id = last.a[2] =>
           /\ IF last.a[1] = "Overflow" \/ ~IsConfigured(sections[last.a[1]])
              THEN last.ok
              ELSE last.ok <=> InSection(sections[last.a[1]], s)
           /\ (last.a[1] = "A" /\ sections["A"] = ExampleSection /\ s.shelf = <<"F">>) =>
                 /\ (<<s.row, s.col>> \in ExampleIn => last.ok)
                 /\ (<<s.row, s.col>> \in ExampleOut => ~last.ok)

C17_Witness ==
    /\ last.op = "is_slot_in_letter_section"
    /\ last.a[1] = "A"
    /\ sections["A"] = ExampleSection
    /\ \E s \in slots : s.id = last.a[2] /\ s.shelf = <<"F">> /\ s.row = "C" /\ s.col = 1
    /\ last.ok

\* C18: for every slot of every shelf made through add_shelf or a rename, the
\* label "{shelf}-{row}{col}" given by slot_id_to_label, the form
\* "{shelf}-{row}-{col}" and the decimal id all resolve to the slot's id, and a
\* label that names no slot resolves to nothing.
C18_LabelRoundTrip == last.op = "label_to_slot_id" => last.ok

\* C19: when the confirm popup opened by "Automatic Assign" of the edit form
\* is accepted for a prescription that holds a slot, the prescription then
\* references the first proposed slot, every proposed slot is occupied, and
\* the old slot (with its column + 1 neighbour for a large basket) is free
\* unless a live prescription still holds it.
C19_AutoReassign ==
    [][(ui.kind = "confirm" /\ ui.edit # 0 - 1 /\ last'.op = "accept") =>
          \A p \in prescriptions : (p.id = ui.presc /\ p.slot_id # 0) =>
             /\ \E q \in prescriptions' : q.id = p.id /\ q.slot_id = ui.ids[1]
             /\ \A c \in Range(ui.ids) : \E s \in slots' : s.id = c /\ s.occupied = 1
             /\ \A c \in expand_slots_for_large_display_or_freeing(slots, prescriptions, p.id) :
                   c \notin Held(slots', prescriptions') =>
                      \E s \in slots' : s.id = c /\ s.occupied = 0]_vars

\* C20: when save_edit moves a prescription from its slot A to a different
\* existing free slot B, afterwards every cell it held at A (A, and A's
\* column + 1 neighbour if its basket was large) is free and every cell it needs
\* at B for the saved basket size (B, and B's column + 1 neighbour if large) is
\* occupied; when the location entered is empty or names the current slot, no
\* occupancy flag and no slot reference changes.
C20_EditMove ==
    [][last'.op = "save_edit" =>
          \A p \in prescriptions, q \in prescriptions' :
             (p.id = ui.presc /\ q.id = p.id) =>
                /\ (last'.a[2] \in {0, p.slot_id}) =>
                      slots' = slots /\ q.slot_id = p.slot_id
                /\ (/\ p.slot_id # 0
                    /\ last'.a[2] \notin {0, p.slot_id}
                    /\ \E s \in slots : s.id = last'.a[2] /\ s.occupied = 0) =>
                      /\ \A c \in CellsNeeded(slots, last'.a[2], q.basket_size) \ {0} :
                            \E s \in slots' : s.id = c /\ s.occupied = 1
                      /\ \A c \in (CellsNeeded(slots, p.slot_id, p.basket_size) \ {0})
                                     \ CellsNeeded(slots, last'.a[2], q.basket_size) :
                            \E s \in slots' : s.id = c /\ s.occupied = 0]_vars

\* C21: when a deletion path (delete prescriptions, delete patient, clear all)
\* removes a prescription, every cell it held (its slot, and the column + 1
\* neighbour for a large basket) that no other prescription held is free
\* afterwards.
C21_DeletionReleases ==
    [][\A p \in prescriptions :
          (p.slot_id # 0 /\ ~\E q \in prescriptions' : q.id = p.id) =>
             \A c \in expand_slots_for_large_display_or_freeing(slots, prescriptions, p.id) :
                c \notin Held(slots, prescriptions \ {p}) =>
                   \E s \in slots' : s.id = c /\ s.occupied = 0]_vars

\* C22: binning a new prescription with a family bin sets that prescription's
\* slot reference to the chosen slot and nothing else: no occupancy flag
\* changes and no other prescription changes, whatever the basket size.
C22_FamilyBinFrame ==
    [][last'.op = "bin_with_selected" =>
          /\ slots' = slots
          /\ prescriptions' =
                {IF p.id = ui.presc THEN [p EXCEPT !.slot_id = last'.a[2]] ELSE p :
                    p \in prescriptions}
          /\ UNCHANGED <<shelves, sections, patients>>]_vars

C22_Witness ==
    /\ last.op = "bin_with_selected"
    /\ \E p, q \in prescriptions :
          /\ p.id = last.a[1]
          /\ p.basket_size = "large"
          /\ q.id # p.id
          /\ q.slot_id = p.slot_id
          /\ next_col_partner_slot_id(slots, p.slot_id) # 0
          /\ \E s \in slots : s.id = next_col_partner_slot_id(slots, p.slot_id)
                              /\ s.occupied = 0

\* what the entry function of a finished scan returns, computed in one piece
ScanResult(sc) ==
    IF sc.entry = "find_slot_in_section"
    THEN find_slot_in_section(slots, sc.bound[1], sc.bound[2], sc.bound[3],
                              sc.bound[4], sc.bound[5], sc.basket)
    ELSE IF sc.entry = "find_next_available_slot_primary"
    THEN find_next_available_slot_primary(slots, sections, sc.letter, sc.basket)
    ELSE find_next_available_slot_with_overflow(slots, sections, sc.letter, sc.basket)

\* C23: find_slot_in_section, find_next_available_slot_primary and
\* find_next_available_slot_with_overflow terminate for every bound (a start
\* row below the end row and bounds past the shelf included), no step of them
\* changes an occupancy flag, a prescription, a shelf or a section, and the
\* slots they propose are still free when they return.
C23_ScansPureAndTerminate ==
    /\ [][scanner' # scanner =>
             UNCHANGED <<shelves, slots, sections, patients, prescriptions>>]_vars
    /\ [](scanner.pc = "done" =>
             /\ scanner.res = ScanResult(scanner)
             /\ scanner.res # None =>
                   \A id \in Range(scanner.res[1]) :
                      \E s \in slots : s.id = id /\ s.occupied = 0)
    /\ (scanner.pc # "idle") ~> (scanner.pc = "done")

C23_Witness ==
    /\ scanner.pc = "done"
    /\ scanner.entry = "find_slot_in_section"
    /\ ord(scanner.bound[2]) > ord(scanner.bound[4])
    /\ scanner.res = None
    /\ \E s \in slots : s.shelf = scanner.bound[1] /\ s.occupied = 0

\* C24: every slot id in a result of find_next_available_slot_primary(letter,
\* basket) -- both slots of a large-basket pair -- satisfies
\* is_slot_in_letter_section(letter, slot)
C24_AllocatorMembershipAgree ==
    (last.op = "find_next_available_slot_primary" /\ last.ok)
        => \A k \in DOMAIN last.a[3][1] :
              is_slot_in_letter_section(slots, sections, last.a[1], last.a[3][1][k])

\* C25: from any ledger, drifted or not, every slot auto_assign_for_patient
\* proposes is neither the slot of a live prescription nor the column+1
\* neighbour of a large prescription's slot; after the call a slot that no
\* prescription holds is free, and the proposal is the one the search makes
\* over the slots no prescription holds
C25_ReconcileBeforeSearch ==
    last.op = "auto_assign_for_patient" =>
        LET held == Held(slots, prescriptions)
            unheld == {[s EXCEPT !.occupied = IF s.id \in held THEN 1 ELSE 0] : s \in slots}
        IN /\ last.a[3] # None => \A k \in DOMAIN last.a[3][1] : last.a[3][1][k] \notin held
           /\ \A s \in slots : s.id \notin held => s.occupied = 0
           /\ last.a[3] = find_next_available_slot_with_overflow(
                              unheld, sections, get_patient_letter(patients, last.a[1]),
                              last.a[2])

\* a slot flagged occupied by drift alone, beside a live prescription, is the
\* one proposed
C25_Witness ==
    /\ last.op = "auto_assign_for_patient"
    /\ last.a[3] # None
    /\ last.a[3][1][1] \in last.a[4]
    /\ last.a[3][1][1] \notin Held(slots, prescriptions)
    /\ \E p \in prescriptions : p.slot_id \in {s.id : s \in slots}

\* the cells a prescription holds: its slot and, for a large basket, the
\* column+1 neighbour of that slot
Cells(S, p) ==
    IF p.slot_id = 0 THEN {}
    ELSE {p.slot_id} \cup
         IF basket_of(p.basket_size) = "large"
         THEN {next_col_partner_slot_id(S, p.slot_id)} \ {0}
         ELSE {}

\* the pairs of live prescriptions that hold a cell in common
Overlaps(S, P) ==
    {pair \in SUBSET {p.id : p \in P} :
        /\ Cardinality(pair) = 2
        /\ \E p \in P, q \in P :
              /\ pair = {p.id, q.id}
              /\ p.id # q.id
              /\ Cells(S, p) \cap Cells(S, q) # {}}

\* C26: accepting an auto-assign proposal, a manual assign and a saved edit
\* (a small basket made large included) never make two prescriptions hold a
\* cell in common that did not already share one
C26_NoDoubleBooking ==
    [][(last'.op \in {"accept", "assign", "save_edit"} /\ last'.ok)
          => Overlaps(slots', prescriptions') \subseteq Overlaps(slots, prescriptions)]_vars

\* C27: every live prescription's non-null slot_id is the id of a slot that
\* exists; delete_shelf removes no slot a live prescription references
C27_NoDanglingSlot ==
    \A p \in prescriptions : p.slot_id # 0 => \E s \in slots : s.id = p.slot_id

\* C28: no two slot records share a (shelf, row, column) triple, and the
\* shelf of every slot record is the name of a shelf that exists
C28_SlotAddressUnique ==
    /\ \A s \in slots, t \in slots :
          (s.shelf = t.shelf /\ s.row = t.row /\ s.col = t.col) => s.id = t.id
    /\ \A s \in slots : \E sh \in shelves : sh.name = s.shelf

\* a shelf that has slots was renamed and resized in one edit
C28_Witness ==
    /\ last.op = "apply_edit"
    /\ last.ok
    /\ last.a[1] # last.a[2]
    /\ \E s \in slots : s.shelf = last.a[2]
    /\ \E sh \in shelves :
          /\ sh.name = last.a[2]
          /\ Cardinality({s \in slots : s.shelf = sh.name}) # sh.rows_count * sh.cols_count

\* the worker thread of session i has ended
WorkerEnded(i) == i \in DOMAIN blink_sessions /\ blink_sessions[i].pc \in {"done", "crashed"}

\* session i was stopped
Stopped(i) == i \in DOMAIN blink_sessions /\ blink_sessions[i].stop

\* C29: once stop_blink(key) stopped a session, running or paused, the worker
\* of that session eventually ends and the key has no entry when stop_blink
\* returns; stop_blink on a key without an entry changes nothing; no step of
\* the blink functions changes the slots or the prescriptions
C29_BlinkCancellation ==
    /\ \A i \in 1..MaxSessions : Stopped(i) ~> WorkerEnded(i)
    /\ [][(last'.op = "stop_blink" /\ (last.op # "stop_blink" \/ last.a # last'.a))
             => /\ blink_groups'[last'.a[1]] = 0
                /\ (blink_groups[last'.a[1]] = 0
                       => UNCHANGED <<blink_groups, blink_sessions>>)]_vars
    /\ [][<<blink_groups, blink_sessions, blink_call>>' # <<blink_groups, blink_sessions, blink_call>>
             => UNCHANGED <<slots, prescriptions>>]_vars

\* the worker thread of session i is in its loop
InLoop(i) == blink_sessions[i].pc \in {"loop", "nap", "on", "off"}

\* C30: a worker thread reads the events of the session that started it,
\* never those of a later session, and always finds its registry entry; no
\* two workers given the same key go on blinking, each on events not yet set
C30_WorkerBindsOwnSession ==
    \A i \in DOMAIN blink_sessions :
        /\ blink_sessions[i].pc # "crashed"
        /\ blink_sessions[i].ctrl \in {0, i}
        /\ \A j \in DOMAIN blink_sessions :
              (/\ i # j
               /\ blink_sessions[i].key = blink_sessions[j].key
               /\ InLoop(i)
               /\ InLoop(j))
                  => \/ blink_sessions[blink_sessions[i].ctrl].stop
                     \/ blink_sessions[blink_sessions[j].ctrl].stop

====
